---- MODULE Spec2Model ----
(***************************************************************************)
(* Jeonse (lump-sum deposit lease) risk pipeline of home-risk-check-fastapi *)
(*   app/services/risk_calculator.py   feature calculation, scoring         *)
(*   app/services/feature_service.py   training-side feature calculation    *)
(*   app/services/price_service.py     market price estimation              *)
(*   app/services/predict_service.py   request orchestration                *)
(*                                                                         *)
(* Real numbers (Python floats) are modelled as exact rationals <<n, d>>    *)
(* with d > 0, kept in lowest terms.  Free text is modelled as the set of   *)
(* keywords the text contains (the code only ever asks "kw in text"); the   *)
(* empty set is the empty string, {"other"} a text with none of the         *)
(* keywords.  Python dicts are functions whose DOMAIN is the set of keys.   *)
(* The Korean keywords of the source are written romanised: apateu          *)
(* (apartment), opiseutel (officetel), dasedae (multi-household), yeonrip   *)
(* (row house), billa (villa), geunrin (neighbourhood facility), sintak     *)
(* (trust).                                                                *)
(***************************************************************************)
EXTENDS Bags, Integers, Sequences, FiniteSets, TLC

\* ---------------------------------------------------------------------------
\* Bounds of the model
\* ---------------------------------------------------------------------------
MaxDeposit == 10       \* deposits range over 0 .. MaxDeposit (manwon)
MaxMarket == 10        \* market prices range over -1 .. MaxMarket (manwon)
MaxDebt == 2           \* senior debts range over 0 .. MaxDebt (manwon)
MaxPublic == 2         \* assessed prices range over 0 .. MaxPublic x 10000 (won)
MaxWeightTenths == 12  \* short-term weights range over -k/10 .. k/10

\* ---------------------------------------------------------------------------
\* Rational arithmetic
\* ---------------------------------------------------------------------------
Abs(i) == IF i < 0 THEN -i ELSE i

RECURSIVE GCD(_, _)
GCD(a, b) == IF b = 0 THEN a ELSE GCD(b, a % b)

\* n/d in lowest terms with a positive denominator (d # 0)
R(n, d) ==
    LET s == IF d < 0 THEN -1 ELSE 1
        g == GCD(Abs(n), Abs(d))
    IN  <<(s * n) \div g, (s * d) \div g>>

RInt(i) == <<i, 1>>
RAdd(a, b) == R(a[1] * b[2] + b[1] * a[2], a[2] * b[2])
RMul(a, b) == R(a[1] * b[1], a[2] * b[2])
RDiv(a, b) == R(a[1] * b[2], a[2] * b[1])
RLt(a, b) == a[1] * b[2] < b[1] * a[2]
RLe(a, b) == a[1] * b[2] <= b[1] * a[2]
RGt(a, b) == RLt(b, a)
RGe(a, b) == RLe(b, a)
REq(a, b) == a[1] * b[2] = b[1] * a[2]
RMax(a, b) == IF RLt(a, b) THEN b ELSE a
RZero == <<0, 1>>
ROne == <<1, 1>>

\* dict.get(key, default)
Get(d, k, default) == IF k \in DOMAIN d THEN d[k] ELSE default

\* "kw in text"
Contains(text, kw) == kw \in text

\* numpy.clip(x, lo, hi)
Clip(x, lo, hi) == IF RLt(x, lo) THEN lo ELSE IF RGt(x, hi) THEN hi ELSE x

\* ---------------------------------------------------------------------------
\* Dates.  A date field is missing/empty, unparseable, or a day number;
\* "now" is a day number too, so (datetime.now() - date).days = now - day.
\* ---------------------------------------------------------------------------
NoDate == [k |-> "none", day |-> 0]
BadDate == [k |-> "bad", day |-> 0]
Day(n) == [k |-> "day", day |-> n]
DateTruthy(dt) == dt.k # "none"

\* days / 365.25
YearsOf(days) == R(days * 100, 36525)

\* ---------------------------------------------------------------------------
\* risk_calculator.py
\* ---------------------------------------------------------------------------
USE_COLS == <<"type_APT", "type_OFFICETEL", "type_VILLA", "type_ETC">>

\* One-hot encoding of the building type, risk_calculator.py step 10
TypeDict(main_use) ==
    LET hot == IF Contains(main_use, "apateu") THEN "type_APT"
               ELSE IF Contains(main_use, "opiseutel") THEN "type_OFFICETEL"
               ELSE IF Contains(main_use, "dasedae") \/ Contains(main_use, "yeonrip")
                    THEN "type_VILLA"
               ELSE "type_ETC"
    IN  [c \in {USE_COLS[i] : i \in 1..Len(USE_COLS)} |-> IF c = hot THEN 1 ELSE 0]

\* Building-type weight, risk_calculator.py step 6
TypeWeight(main_use) ==
    IF Contains(main_use, "geunrin") THEN R(4, 10)
    ELSE IF \E t \in {"dasedae", "opiseutel", "yeonrip"} : Contains(main_use, t) THEN R(1, 10)
    ELSE RZero

\* Short-term ownership weight, risk_calculator.py step 5
ShortTermWeight(building_info, ocr_features, now_) ==
    LET w == Get(ocr_features, "short_term_weight", RZero)
        od == Get(building_info, "ownership_changed_date", NoDate)
    IN  IF REq(w, RZero) /\ DateTruthy(od)
        THEN IF od.k = "bad" THEN w            \* pd.to_datetime raises: pass
             ELSE IF now_ - od.day < 90 THEN R(3, 10)
             ELSE IF now_ - od.day < 730 THEN R(1, 10)
             ELSE w
        ELSE w

\* Building age in years, risk_calculator.py step 8
BuildingAge(building_info, ocr_features, now_) ==
    LET b == Get(building_info, "use_apr_day", NoDate)
        use_apr_day == IF DateTruthy(b) THEN b
                       ELSE Get(ocr_features, "usage_approval_date", NoDate)
    IN  IF DateTruthy(use_apr_day) /\ use_apr_day.k = "day"
        THEN YearsOf(now_ - use_apr_day.day)
        ELSE RInt(10)

\* Total risk ratio with the senior debt, risk_calculator.py step 3
TotalRiskRatio_SubDebt(dep, real_debt, market_price_manwon) ==
    IF RGt(market_price_manwon, RZero)
    THEN RDiv(RAdd(dep, RMul(RInt(-1), real_debt)), market_price_manwon)
    ELSE RZero

TotalRiskRatio(dep, real_debt, market_price_manwon) ==
    IF RGt(market_price_manwon, RZero)
    THEN RDiv(RAdd(dep, real_debt), market_price_manwon)
    ELSE RZero

\* Qualitative risk score (estimated_loan_ratio), risk_calculator.py step 7
RiskScoreVal_NoClip(type_weight, short_term_weight, is_trust) ==
    RAdd(RAdd(type_weight, short_term_weight),
         IF is_trust # 0 THEN R(5, 10) ELSE RZero)

RiskScoreVal(type_weight, short_term_weight, is_trust) ==
    Clip(RAdd(RAdd(type_weight, short_term_weight),
              IF is_trust # 0 THEN R(5, 10) ELSE RZero),
         RZero, ROne)

calculate_risk_features(deposit_manwon, market_price_manwon, public_price_won, building_info, ocr_features, now_) ==
    LET dep == RInt(deposit_manwon)
        jeonse_ratio == IF RGt(market_price_manwon, RZero)
                        THEN RDiv(dep, market_price_manwon) ELSE RZero
        hug_limit == IF public_price_won > 0
                     THEN R(public_price_won * 126, 100 * 10000)
                     ELSE market_price_manwon
        hug_risk_ratio == IF RGt(hug_limit, RZero) THEN RDiv(dep, hug_limit) ELSE RZero
        real_debt == Get(ocr_features, "real_debt_manwon", RZero)
        total_risk_ratio == TotalRiskRatio(dep, real_debt, market_price_manwon)
        owner_name == Get(building_info, "owner_name", {})
        is_trust == IF Get(ocr_features, "is_trust_owner", 0) # 0
                    THEN Get(ocr_features, "is_trust_owner", 0)
                    ELSE IF Contains(owner_name, "sintak") THEN 1 ELSE 0
        short_term_weight == ShortTermWeight(building_info, ocr_features, now_)
        bmu == Get(building_info, "main_use", {})
        main_use == IF bmu # {} THEN bmu ELSE Get(ocr_features, "main_use", {})
        type_weight == TypeWeight(main_use)
        risk_score_val == RiskScoreVal(type_weight, short_term_weight, is_trust)
        building_age == BuildingAge(building_info, ocr_features, now_)
        hc == Get(building_info, "household_cnt", 0)
        household_cnt == IF hc = 0 \/ hc < 1 THEN 1 ELSE hc
        parking_per_household == R(Get(building_info, "parking_cnt", 0), household_cnt)
        is_micro_complex == IF household_cnt < 100 THEN 1 ELSE 0
        is_illegal == IF Get(ocr_features, "is_illegal", 0) # 0
                      THEN Get(ocr_features, "is_illegal", 0)
                      ELSE IF Get(building_info, "is_violating_building", "") = "Y"
                           THEN 1 ELSE 0
    IN  [jeonse_ratio |-> jeonse_ratio,
         hug_risk_ratio |-> hug_risk_ratio,
         total_risk_ratio |-> total_risk_ratio,
         estimated_loan_ratio |-> risk_score_val,
         building_age |-> building_age,
         is_illegal |-> is_illegal,
         parking_per_household |-> parking_per_household,
         is_micro_complex |-> is_micro_complex,
         is_trust_owner |-> is_trust,
         short_term_weight |-> short_term_weight,
         real_debt |-> real_debt] @@ TypeDict(main_use)

\* ---------------------------------------------------------------------------
\* feature_service.py (the feature calculation the classifier was trained on)
\* ---------------------------------------------------------------------------
FS_TypeDict(main_use) ==
    LET hot == IF Contains(main_use, "apateu") THEN "type_APT"
               ELSE IF Contains(main_use, "opiseutel") THEN "type_OFFICETEL"
               ELSE IF \E x \in {"dasedae", "yeonrip", "billa"} : Contains(main_use, x)
                    THEN "type_VILLA"
               ELSE "type_ETC"
    IN  [c \in {"type_APT", "type_OFFICETEL", "type_VILLA", "type_ETC"} |->
            IF c = hot THEN 1 ELSE 0]

FS_TypeWeight(main_use) ==
    IF Contains(main_use, "geunrin") THEN R(4, 10)
    ELSE IF \E x \in {"dasedae", "yeonrip", "opiseutel", "billa"} : Contains(main_use, x)
         THEN R(1, 10)
    ELSE RZero

FS_BuildingAge(usage_approval_date, now_) ==
    IF ~DateTruthy(usage_approval_date) THEN RZero
    ELSE IF usage_approval_date.k = "day" THEN YearsOf(now_ - usage_approval_date.day)
    ELSE RInt(10)

\* Result: [raised |-> TRUE] when the function raises (ZeroDivisionError),
\* else [raised |-> FALSE, f |-> feature dict].
FS_calculate_risk_features(deposit_amount, market_price_in, real_debt, main_use, usage_approval_date, is_illegal, is_trust_owner, short_term_weight, parking_count, household_count, now_) ==
    LET dep == RInt(deposit_amount)
        market_price == IF RLe(market_price_in, RZero)
                        THEN RMul(dep, R(125, 100)) ELSE market_price_in
    IN  IF REq(market_price, RZero) THEN [raised |-> TRUE, f |-> <<>>]
        ELSE
        LET jeonse_ratio == RDiv(dep, market_price)
            total_risk_ratio == RDiv(RAdd(dep, real_debt), market_price)
            est_public_price == RMul(market_price, R(7, 10))
            hug_limit == RMul(est_public_price, R(126, 100))
            hug_risk_ratio == IF RGt(hug_limit, RZero) THEN RDiv(dep, hug_limit)
                              ELSE RZero
            type_w == FS_TypeWeight(main_use)
            risk_score_val == Clip(RAdd(RAdd(type_w, short_term_weight),
                                        IF is_trust_owner # 0 THEN R(5, 10) ELSE RZero),
                                   RZero, ROne)
            building_age == FS_BuildingAge(usage_approval_date, now_)
            parking_per_household == IF household_count > 0
                                     THEN R(parking_count, household_count) ELSE RZero
            is_micro_complex == IF household_count < 100 THEN 1 ELSE 0
        IN  [raised |-> FALSE,
             f |-> [jeonse_ratio |-> jeonse_ratio,
                    hug_risk_ratio |-> hug_risk_ratio,
                    total_risk_ratio |-> total_risk_ratio,
                    estimated_loan_ratio |-> risk_score_val,
                    building_age |-> building_age,
                    is_illegal |-> is_illegal,
                    parking_per_household |-> parking_per_household,
                    is_micro_complex |-> is_micro_complex,
                    is_trust_owner |-> is_trust_owner,
                    short_term_weight |-> short_term_weight] @@ FS_TypeDict(main_use)]

\* ---------------------------------------------------------------------------
\* Scoring engine, risk_calculator.py
\* ---------------------------------------------------------------------------
\* Rule-based fallback
_rule_based_prediction_Chained(features) ==
    LET jr == Get(features, "jeonse_ratio", RZero)
        tr == Get(features, "total_risk_ratio", RZero)
    IN  IF RGe(jr, R(8, 10)) THEN R(8, 10)
        ELSE IF RGe(jr, R(7, 10)) THEN R(5, 10)
        ELSE IF RGe(tr, R(9, 10)) THEN R(9, 10)
        ELSE IF RGe(tr, R(8, 10)) THEN R(7, 10)
        ELSE IF Get(features, "is_trust_owner", 0) # 0
                /\ RGt(Get(features, "short_term_weight", RZero), RZero)
             THEN R(6, 10)
        ELSE RZero

_rule_based_prediction(features) ==
    LET jr == Get(features, "jeonse_ratio", RZero)
        tr == Get(features, "total_risk_ratio", RZero)
        p0 == RZero
        p1 == IF RGe(jr, R(8, 10)) THEN RMax(p0, R(8, 10))
              ELSE IF RGe(jr, R(7, 10)) THEN RMax(p0, R(5, 10))
              ELSE p0
        p2 == IF RGe(tr, R(9, 10)) THEN RMax(p1, R(9, 10))
              ELSE IF RGe(tr, R(8, 10)) THEN RMax(p1, R(7, 10))
              ELSE p1
        p3 == IF Get(features, "is_trust_owner", 0) # 0
                 /\ RGt(Get(features, "short_term_weight", RZero), RZero)
              THEN RMax(p2, R(6, 10))
              ELSE p2
    IN  p3

\* Lazy singleton loader.  rf is the module global _rf_model ("None" or
\* "loaded"), file the state of models/fraud_rf_model.pkl ("absent",
\* "corrupt": joblib.load raises, "ok").  Returns the model handed to the
\* caller and the new value of the global.
get_model(rf, file) ==
    IF rf # "None" THEN [model |-> rf, rf_model |-> rf]
    ELSE IF file = "absent" THEN [model |-> "None", rf_model |-> rf]
    ELSE IF file = "corrupt" THEN [model |-> "None", rf_model |-> rf]
    ELSE [model |-> "loaded", rf_model |-> "loaded"]

\* outcome is what the classifier does when called: [raises |-> TRUE] (column
\* or shape mismatch, any Exception) or [raises |-> FALSE, prob |-> p].
predict_with_model_NoExcept(features, model, outcome) ==
    IF model = "None"
    THEN [raised |-> FALSE, prob |-> _rule_based_prediction(features)]
    ELSE IF outcome.raises
         THEN [raised |-> TRUE, prob |-> RZero]
         ELSE [raised |-> FALSE, prob |-> outcome.prob]

predict_with_model(features, model, outcome) ==
    IF model = "None"
    THEN [raised |-> FALSE, prob |-> _rule_based_prediction(features)]
    ELSE IF outcome.raises
         THEN [raised |-> FALSE, prob |-> _rule_based_prediction(features)]
         ELSE [raised |-> FALSE, prob |-> outcome.prob]

determine_risk_level_Inclusive(prob) ==
    IF RLe(prob, R(4, 10)) THEN "SAFE"
    ELSE IF RLe(prob, R(7, 10)) THEN "CAUTION"
    ELSE "RISKY"

determine_risk_level(prob) ==
    IF RLt(prob, R(4, 10)) THEN "SAFE"
    ELSE IF RLt(prob, R(7, 10)) THEN "CAUTION"
    ELSE "RISKY"

Factor(t, sev) == [type |-> t, severity |-> sev]

\* 2. high jeonse ratio
HighLtv_NonStrict(risk_factors, jeonse_ratio) ==
    IF RGe(jeonse_ratio, R(8, 10)) THEN Append(risk_factors, Factor("HIGH_LTV", "HIGH"))
    ELSE IF RGe(jeonse_ratio, R(7, 10))
         THEN Append(risk_factors, Factor("HIGH_LTV", "MEDIUM"))
    ELSE risk_factors

HighLtv(risk_factors, jeonse_ratio) ==
    IF RGt(jeonse_ratio, R(8, 10)) THEN Append(risk_factors, Factor("HIGH_LTV", "HIGH"))
    ELSE IF RGt(jeonse_ratio, R(7, 10))
         THEN Append(risk_factors, Factor("HIGH_LTV", "MEDIUM"))
    ELSE risk_factors

\* no factor at all: the NONE sentinel
NoneIfEmpty_Always(risk_factors) == Append(risk_factors, Factor("NONE", "LOW"))

NoneIfEmpty(risk_factors) ==
    IF risk_factors = <<>> THEN Append(risk_factors, Factor("NONE", "LOW"))
    ELSE risk_factors

\* The factor list, built by successive appends
analyze_risk_factors(features, is_hug_safe) ==
    LET jeonse_ratio == Get(features, "jeonse_ratio", RZero)
        real_debt == Get(features, "real_debt", RZero)
        stw == Get(features, "short_term_weight", RZero)
        building_age == Get(features, "building_age", RZero)
        f1 == IF ~is_hug_safe THEN <<Factor("HUG_INELIGIBLE", "CRITICAL")>> ELSE <<>>
        f2 == HighLtv(f1, jeonse_ratio)
        f3 == IF RGt(real_debt, RZero) THEN Append(f2, Factor("SENIOR_DEBT", "HIGH"))
              ELSE f2
        f4 == IF Get(features, "is_illegal", 0) # 0
              THEN Append(f3, Factor("ILLEGAL_BUILDING", "HIGH")) ELSE f3
        f5 == IF Get(features, "is_trust_owner", 0) # 0
              THEN Append(f4, Factor("TRUST_PROPERTY", "MEDIUM")) ELSE f4
        f6 == IF RGt(stw, RZero)
              THEN Append(f5, Factor("SHORT_OWNERSHIP",
                                     IF RGe(stw, R(3, 10)) THEN "HIGH" ELSE "MEDIUM"))
              ELSE f5
        f7 == IF RGt(building_age, RInt(30))
              THEN Append(f6, Factor("OLD_BUILDING", "LOW")) ELSE f6
    IN  NoneIfEmpty(f7)

\* ---------------------------------------------------------------------------
\* address_service.py.  Strings that the code takes apart (lot numbers, parcel
\* keys) are sequences of one-character strings.  An address is its
\* whitespace-separated tokens: the province (sido), the rest of the district
\* name, and the last token (lot), empty when the address ends with the
\* district name; k = "none" is None.
\* ---------------------------------------------------------------------------
Digits == {"0", "1", "2", "3", "4", "5", "6", "7", "8", "9"}
DigitVal(c) ==
    CASE c = "0" -> 0 [] c = "1" -> 1 [] c = "2" -> 2 [] c = "3" -> 3 [] c = "4" -> 4
      [] c = "5" -> 5 [] c = "6" -> 6 [] c = "7" -> 7 [] c = "8" -> 8 [] c = "9" -> 9
DigitChar(i) == <<"0", "1", "2", "3", "4", "5", "6", "7", "8", "9">>[i + 1]

\* the digits of s, in order, as a number
RECURSIVE DigitsValue(_, _)
DigitsValue(s, acc) ==
    IF s = <<>> THEN acc
    ELSE DigitsValue(Tail(s), IF Head(s) \in Digits THEN acc * 10 + DigitVal(Head(s))
                               ELSE acc)

Min(a, b) == IF a < b THEN a ELSE b

\* s[a:b]
Slice(s, a, b) == SubSeq(s, a + 1, Min(b, Len(s)))

\* s.split(c)
RECURSIVE Split(_, _)
Split(s, c) ==
    IF \A i \in 1..Len(s) : s[i] # c THEN <<s>>
    ELSE LET i == CHOOSE k \in 1..Len(s) : s[k] = c /\ \A j \in 1..(k - 1) : s[j] # c
         IN  <<SubSeq(s, 1, i - 1)>> \o Split(SubSeq(s, i + 1, Len(s)), c)

IsDigits(s) == s # <<>> /\ \A i \in 1..Len(s) : s[i] \in Digits

\* str(n)
RECURSIVE DigitsOf(_)
DigitsOf(n) ==
    IF n < 10 THEN <<DigitChar(n)>>
    ELSE Append(DigitsOf(n \div 10), DigitChar(n % 10))

\* f"{n:04d}": at least four digits, zero-padded on the left
Format04d(n) ==
    LET d == DigitsOf(n)
    IN  IF Len(d) >= 4 THEN d ELSE [i \in 1..(4 - Len(d)) |-> "0"] \o d

NoneAddress == [k |-> "none", sido |-> "", rest |-> "", lot |-> <<>>]
Address(sido, rest, lot) == [k |-> "addr", sido |-> sido, rest |-> rest, lot |-> lot]

SIDO_MAP == [x \in {"seoul", "seoulsi"} |-> "seoulteukbyeolsi"]

normalize_address(address) ==
    IF address.k = "none" THEN address
    ELSE IF address.sido = "" /\ address.rest = "" /\ address.lot = <<>> THEN address
    ELSE IF address.sido \in DOMAIN SIDO_MAP
         THEN [address EXCEPT !.sido = SIDO_MAP[address.sido]]
    ELSE address

\* re.search(r'(.+)\s+(\d+)(?:-(\d+))?$', address.strip()): the last token is a
\* lot number "main" or "main-sub" and something precedes it
extract_address_components(address) ==
    LET parts == Split(address.lot, "-")
        matched == /\ address.sido # "" \/ address.rest # ""
                   /\ Len(parts) \in {1, 2}
                   /\ \A i \in 1..Len(parts) : IsDigits(parts[i])
    IN  IF ~matched
        THEN [region_part |-> <<>>, main_no |-> <<>>, sub_no |-> <<>>]
        ELSE [region_part |-> <<address.sido, address.rest>>,
              main_no |-> parts[1],
              sub_no |-> IF Len(parts) = 2 THEN parts[2] ELSE <<"0">>]

\* the district-code table of the reference file
BjdCode == <<"2", "8", "2", "3", "7", "1", "0", "1", "0", "0">>
BjdTable == [r \in {<<"seoulteukbyeolsi", "jongnogu cheongundong">>} |-> BjdCode]
EmptyMap == <<>>

\* The module global _bjd_map: None, or a table once set
NotLoaded == [loaded |-> FALSE, table |-> EmptyMap]
Loaded(t) == [loaded |-> TRUE, table |-> t]

\* a failed load is not remembered
get_bjd_map_ForgetFailure(m, file) ==
    IF m.loaded THEN [map |-> m.table, bjd_map |-> m, read |-> FALSE]
    ELSE IF file = "absent"
         THEN [map |-> EmptyMap, bjd_map |-> m, read |-> FALSE]
    ELSE IF file = "corrupt"
         THEN [map |-> EmptyMap, bjd_map |-> m, read |-> TRUE]
    ELSE [map |-> BjdTable, bjd_map |-> Loaded(BjdTable), read |-> TRUE]

\* Lazy singleton loader.  m is the module global _bjd_map, file the state of
\* the reference CSV ("absent", "corrupt": pd.read_csv or the column access
\* raises, "ok").  Returns the table handed to the caller, the new value of
\* the global, and whether the file was read.
get_bjd_map(m, file) ==
    IF m.loaded THEN [map |-> m.table, bjd_map |-> m, read |-> FALSE]
    ELSE IF file = "absent"
         THEN [map |-> EmptyMap, bjd_map |-> Loaded(EmptyMap), read |-> FALSE]
    ELSE IF file = "corrupt"
         THEN [map |-> EmptyMap, bjd_map |-> Loaded(EmptyMap), read |-> TRUE]
    ELSE [map |-> BjdTable, bjd_map |-> Loaded(BjdTable), read |-> TRUE]

\* f"{bjd_code}-3-{int(main_no):04d}{int(sub_no):04d}"
MakePnu(bjd_code, main_no, sub_no) ==
    bjd_code \o <<"-", "3", "-">> \o Format04d(main_no) \o Format04d(sub_no)

NoPnuResult(msg) == [raised |-> "", pnu |-> <<>>, msg |-> msg]

\* convert_address_to_pnu with the table get_bjd_map handed over
convert_address_to_pnu(address, bjd_map) ==
    IF DOMAIN bjd_map = {} THEN NoPnuResult("no_bjd_data")
    ELSE IF address.k = "none"
         THEN [raised |-> "AttributeError", pnu |-> <<>>, msg |-> ""]
    ELSE LET c == extract_address_components(address)
         IN  IF c.region_part = <<>> \/ c.main_no = <<>>
             THEN NoPnuResult("format_error")
             ELSE IF c.region_part \notin DOMAIN bjd_map
             THEN NoPnuResult("district_not_found")
             ELSE [raised |-> "",
                   pnu |-> MakePnu(bjd_map[c.region_part], DigitsValue(c.main_no, 0),
                                   DigitsValue(c.sub_no, 0)),
                   msg |-> "ok"]

NoParts == [ok |-> FALSE, sigungu_code |-> <<>>, bjdong_code |-> <<>>, land_type |-> <<>>, bonbun |-> <<>>, bubun |-> <<>>]

\* parse_pnu: ok is FALSE when it returns None
parse_pnu(pnu) ==
    IF pnu = <<>> THEN NoParts
    ELSE LET parts == Split(pnu, "-")
         IN  IF Len(parts) < 3 THEN NoParts
             ELSE [ok |-> TRUE,
                   sigungu_code |-> Slice(parts[1], 0, 5),
                   bjdong_code |-> Slice(parts[1], 5, 10),
                   land_type |-> parts[2],
                   bonbun |-> Slice(parts[3], 0, 4),
                   bubun |-> IF Len(parts[3]) >= 8 THEN Slice(parts[3], 4, 8)
                             ELSE <<"0", "0", "0", "0">>]

pnu_to_raw_format(pnu) ==
    LET parts == Split(pnu, "-")
    IN  IF Len(parts) >= 3 THEN parts[1] \o <<"0">> \o parts[3]
        ELSE SelectSeq(pnu, LAMBDA ch : ch # "-")

\* ---------------------------------------------------------------------------
\* price_service.py
\* ---------------------------------------------------------------------------
\* Parcel keys: none, the hyphenated form of the parcel the database knows,
\* and the same written without hyphens
NoPnu == <<>>
HyphenPnu == MakePnu(BjdCode, 65, 124)
RawPnu == pnu_to_raw_format(HyphenPnu)
Pnus == {NoPnu, RawPnu, HyphenPnu}

NoRow == [exists |-> FALSE, price |-> 0]
Row(p) == [exists |-> TRUE, price |-> p]

DbErr == "DatabaseConnectionError"

\* available: is_db_available(); row: the most recent raw_trade row for the
\* key; qerr: what the query does ("none", "connect": OperationalError naming
\* a refused connection, "other": any other exception).
get_trade_price(pnu, available, row, qerr) ==
    IF pnu = NoPnu THEN [raised |-> "", price |-> RZero, source |-> "Unknown"]
    ELSE IF ~parse_pnu(pnu).ok THEN [raised |-> "", price |-> RZero, source |-> "Unknown"]
    ELSE IF ~available THEN [raised |-> DbErr, price |-> RZero, source |-> "Unknown"]
    ELSE IF qerr = "connect" THEN [raised |-> DbErr, price |-> RZero, source |-> "Unknown"]
    ELSE IF qerr = "none" /\ row.exists
         THEN [raised |-> "", price |-> RInt(row.price), source |-> "DB_Trade"]
    ELSE [raised |-> "", price |-> RZero, source |-> "Unknown"]

\* public: the price official_price_raw yields for the key (0: no rows)
get_public_price(pnu, available, public, qerr) ==
    IF pnu = NoPnu THEN [raised |-> "", price |-> 0]
    ELSE IF ~available THEN [raised |-> DbErr, price |-> 0]
    ELSE IF qerr = "connect" THEN [raised |-> DbErr, price |-> 0]
    ELSE IF qerr = "none" THEN [raised |-> "", price |-> public]
    ELSE [raised |-> "", price |-> 0]

\* estimate_market_price, "if trade_price > 0"
TradeFound_OrZero(trade_price) == RGe(trade_price, RZero)

TradeFound(trade_price) == RGt(trade_price, RZero)

\* estimate_market_price, step 3: (public_price / 10000) * 1.26
EstimateFromPublic(public_price) == R(public_price * 126, 10000 * 100)

\* the limit left in won
calculate_hug_eligibility_WonLimit(public_price, deposit_manwon) ==
    IF public_price <= 0
    THEN [is_hug_safe |-> FALSE, hug_limit |-> RZero, msg |-> "no_public_price"]
    ELSE LET hug_limit_manwon == R(public_price * 126, 100)
         IN  IF RLe(RInt(deposit_manwon), hug_limit_manwon)
             THEN [is_hug_safe |-> TRUE, hug_limit |-> hug_limit_manwon,
                   msg |-> "eligible"]
             ELSE [is_hug_safe |-> FALSE, hug_limit |-> hug_limit_manwon,
                   msg |-> "ineligible"]

calculate_hug_eligibility(public_price, deposit_manwon) ==
    IF public_price <= 0
    THEN [is_hug_safe |-> FALSE, hug_limit |-> RZero, msg |-> "no_public_price"]
    ELSE LET hug_limit_manwon == R(public_price * 126, 100 * 10000)
         IN  IF RLe(RInt(deposit_manwon), hug_limit_manwon)
             THEN [is_hug_safe |-> TRUE, hug_limit |-> hug_limit_manwon,
                   msg |-> "eligible"]
             ELSE [is_hug_safe |-> FALSE, hug_limit |-> hug_limit_manwon,
                   msg |-> "ineligible"]

\* ---------------------------------------------------------------------------
\* predict_service.py
\* ---------------------------------------------------------------------------
\* "if market_price <= 0": nothing to score against
NoMarketPrice_Negative(market_price) == RLt(market_price, RZero)

NoMarketPrice(market_price) == RLe(market_price, RZero)

\* ---------------------------------------------------------------------------
\* State
\* ---------------------------------------------------------------------------
VARIABLES
    now,         \* datetime.now() as a day number
    pc,          \* position of the computation under way
    args,        \* inputs of the function(s) applied
    ret,         \* what they returned
    rf_model,    \* risk_calculator._rf_model, the classifier singleton
    model_file,  \* state of models/fraud_rf_model.pkl on disk
    db,          \* the database: availability and the rows for the parcel
    loc,         \* local variables of the request being served
    trace,       \* calls of the scoring functions made by the request
    bjd_map,     \* address_service._bjd_map, the district-code table singleton
    bjd_file     \* state of the district-code reference CSV on disk

vars == <<now, pc, args, ret, rf_model, model_file, db, loc, trace, bjd_map, bjd_file>>

\* the request pipeline is not involved
NoDb == [available |-> TRUE, trade |-> NoRow, fetchable |-> NoRow, public |-> 0]
PipelineIdle == db = NoDb /\ loc = <<>> /\ trace = <<>>

\* no address has been resolved yet
AddressIdle == bjd_map = NotLoaded /\ bjd_file = "ok"

Today == 20000

\* ---------------------------------------------------------------------------
\* SpecCalc: the two feature calculators applied to bounded inputs
\* ---------------------------------------------------------------------------
Keywords == {"apateu", "opiseutel", "dasedae", "yeonrip", "billa", "geunrin"}
Texts == (SUBSET Keywords) \cup {{"other"}}
Weights == {R(i, 10) : i \in (0 - MaxWeightTenths)..MaxWeightTenths}
PublicPrices == {10000 * k : k \in 0..MaxPublic}

CalcArgs(dep, mkt, pub, bi, ocr) ==
    [deposit |-> dep, market |-> mkt, public |-> pub,
     building_info |-> bi, ocr_features |-> ocr]

\* what predict_risk_with_ocr hands over: OCR features only
OcrOf(debt, trust, stw, mu, apr, ill) ==
    [real_debt_manwon |-> debt, is_trust_owner |-> trust, short_term_weight |-> stw,
     main_use |-> mu, usage_approval_date |-> apr, is_illegal |-> ill]

\* what predict_risk hands over: the building_info row only
BuildingOf(mu, owner, od, apr, hc, pk, viol) ==
    [main_use |-> mu, owner_name |-> owner, ownership_changed_date |-> od,
     use_apr_day |-> apr, household_cnt |-> hc, parking_cnt |-> pk,
     is_violating_building |-> viol]

AmountSweep ==
    {CalcArgs(dep, RInt(mkt), pub, <<>>,
              OcrOf(RInt(debt), 0, RZero, {"dasedae"}, NoDate, 0)) :
        dep \in 0..MaxDeposit, mkt \in (0 - 1)..MaxMarket,
        pub \in PublicPrices, debt \in 0..MaxDebt}

OcrTextSweep ==
    {CalcArgs(8, RInt(10), 0, <<>>, OcrOf(RZero, trust, stw, mu, NoDate, 0)) :
        trust \in {0, 1}, stw \in Weights, mu \in Texts}

BuildingTextSweep ==
    {CalcArgs(8, RInt(10), 0,
              BuildingOf(mu, owner, NoDate, NoDate, 0, 0, "N"), <<>>) :
        mu \in Texts, owner \in {{}, {"sintak"}}}

\* ownership and approval dates around the thresholds, missing or unparseable
OwnershipDates ==
    {NoDate, BadDate, Day(Today - 30), Day(Today - 90), Day(Today - 729),
     Day(Today - 730)}
ApprovalDates == {NoDate, BadDate, Day(Today - 5 * 365), Day(Today - 31 * 366)}

DateSweep ==
    {CalcArgs(8, RInt(10), 0,
              BuildingOf({"apateu"}, {}, od, apr, hc, 1, viol), <<>>) :
        od \in OwnershipDates, apr \in ApprovalDates, hc \in {0, 2, 100},
        viol \in {"Y", "N"}}
    \cup {CalcArgs(8, RInt(10), 0, <<>>,
                   OcrOf(RZero, 0, RZero, {"apateu"}, apr, ill)) :
        apr \in ApprovalDates, ill \in {0, 1}}

CalcInputs == AmountSweep \cup OcrTextSweep \cup BuildingTextSweep \cup DateSweep

MainUseOf(a) ==
    IF Get(a.building_info, "main_use", {}) # {}
    THEN a.building_info["main_use"]
    ELSE Get(a.ocr_features, "main_use", {})

InitCalc ==
    /\ now = Today
    /\ pc = "calc_in"
    /\ args \in CalcInputs
    /\ ret = [fn |-> "none", raised |-> FALSE, f |-> <<>>]
    /\ rf_model = "None"
    /\ model_file = "absent"
    /\ PipelineIdle
    /\ AddressIdle

RiskCalculatorCalc ==
    /\ pc = "calc_in"
    /\ ret' = [fn |-> "risk_calculator", raised |-> FALSE,
               f |-> calculate_risk_features(args.deposit, args.market, args.public,
                                             args.building_info, args.ocr_features, now)]
    /\ pc' = "calc_out"
    /\ UNCHANGED <<now, args, rf_model, model_file, db, loc, trace, bjd_map, bjd_file>>

FeatureServiceCalc ==
    /\ pc = "calc_in"
    /\ LET o == args.ocr_features
           b == args.building_info
           r == FS_calculate_risk_features(
                    args.deposit, args.market,
                    Get(o, "real_debt_manwon", RZero), MainUseOf(args),
                    Get(o, "usage_approval_date", NoDate),
                    Get(o, "is_illegal", 0),
                    IF Get(o, "is_trust_owner", 0) # 0
                       \/ Contains(Get(b, "owner_name", {}), "sintak") THEN 1 ELSE 0,
                    Get(o, "short_term_weight", RZero),
                    Get(b, "parking_cnt", 0), Get(b, "household_cnt", 0), now)
       IN  ret' = [fn |-> "feature_service", raised |-> r.raised, f |-> r.f]
    /\ pc' = "calc_out"
    /\ UNCHANGED <<now, args, rf_model, model_file, db, loc, trace, bjd_map, bjd_file>>

NextCalc == RiskCalculatorCalc \/ FeatureServiceCalc

SpecCalc == InitCalc /\ [][NextCalc]_vars

Computed == pc = "calc_out" /\ ~ret.raised

TypeCols == {"type_APT", "type_OFFICETEL", "type_VILLA", "type_ETC"}

\* the building type the documented precedence selects
DocumentedType(main_use) ==
    IF "apateu" \in main_use THEN "type_APT"
    ELSE IF "opiseutel" \in main_use THEN "type_OFFICETEL"
    ELSE IF main_use \cap {"dasedae", "yeonrip", "billa"} # {} THEN "type_VILLA"
    ELSE "type_ETC"

\* C6: for every main_use text exactly one of the four type_* fields is 1, the
\* other three are 0, and the one set follows the precedence apateu -> APT,
\* opiseutel -> OFFICETEL, any of dasedae/yeonrip/billa -> VILLA, else ETC.
\* (Violated by risk_calculator.calculate_risk_features on a text that holds
\* billa and none of the keywords before it.)
C6_TypeOneHotPrecedence ==
    Computed =>
        \A c \in TypeCols :
            ret.f[c] = (IF c = DocumentedType(MainUseOf(args)) THEN 1 ELSE 0)

\* C7: for deposit >= 0, market price > 0 and senior debt >= 0 the feature
\* vector has total_risk_ratio >= jeonse_ratio.
C7_TotalRiskGeJeonse ==
    (/\ Computed
     /\ args.deposit >= 0
     /\ RGt(args.market, RZero)
     /\ RGe(Get(args.ocr_features, "real_debt_manwon", RZero), RZero))
    => RGe(ret.f["total_risk_ratio"], ret.f["jeonse_ratio"])

C7_Witness ==
    /\ Computed
    /\ ret.fn = "risk_calculator"
    /\ args.deposit > 0
    /\ RGt(args.market, RZero)
    /\ RGt(Get(args.ocr_features, "real_debt_manwon", RZero), RZero)
    /\ RGt(ret.f["total_risk_ratio"], ret.f["jeonse_ratio"])

\* C8: whatever the building-type weight, the short-term weight and the trust
\* flag are (sums above 1 or below 0 included), estimated_loan_ratio lies in
\* the closed interval [0, 1].
C8_LoanRatioInUnitInterval ==
    Computed =>
        /\ RGe(ret.f["estimated_loan_ratio"], RZero)
        /\ RLe(ret.f["estimated_loan_ratio"], ROne)

C8_Witness ==
    /\ Computed
    /\ ret.fn = "risk_calculator"
    /\ RGt(Get(args.ocr_features, "short_term_weight", RZero), ROne)
    /\ Get(args.ocr_features, "is_trust_owner", 0) = 1
    /\ "geunrin" \in MainUseOf(args)
    /\ REq(ret.f["estimated_loan_ratio"], ROne)

\* ---------------------------------------------------------------------------
\* SpecLevel: determine_risk_level applied to pairs of probabilities
\* ---------------------------------------------------------------------------
MaxProbPct == 100      \* probabilities range over 0/100 .. MaxProbPct/100
ProbGrid == {R(i, 100) : i \in 0..MaxProbPct}

InitLevel ==
    /\ now = Today
    /\ pc = "level_in"
    /\ args \in [p1 : ProbGrid, p2 : ProbGrid]
    /\ ret = [l1 |-> "none", l2 |-> "none"]
    /\ rf_model = "None"
    /\ model_file = "absent"
    /\ PipelineIdle
    /\ AddressIdle

DetermineRiskLevel ==
    /\ pc = "level_in"
    /\ ret' = [l1 |-> determine_risk_level(args.p1),
               l2 |-> determine_risk_level(args.p2)]
    /\ pc' = "level_out"
    /\ UNCHANGED <<now, args, rf_model, model_file, db, loc, trace, bjd_map, bjd_file>>

NextLevel == DetermineRiskLevel

SpecLevel == InitLevel /\ [][NextLevel]_vars

LevelRank(l) == CASE l = "SAFE" -> 0 [] l = "CAUTION" -> 1 [] l = "RISKY" -> 2

\* C4: determine_risk_level is the step function SAFE for p < 0.4, CAUTION for
\* 0.4 <= p < 0.7, RISKY for p >= 0.7, and it is monotone: p1 < p2 never gives
\* p1 a higher level than p2.
C4_LevelStepMonotone ==
    pc = "level_out" =>
        /\ (ret.l1 = "SAFE") = RLt(args.p1, R(4, 10))
        /\ (ret.l1 = "CAUTION") = (RGe(args.p1, R(4, 10)) /\ RLt(args.p1, R(7, 10)))
        /\ (ret.l1 = "RISKY") = RGe(args.p1, R(7, 10))
        /\ (RLt(args.p1, args.p2) => LevelRank(ret.l1) <= LevelRank(ret.l2))

C4_Witness ==
    /\ pc = "level_out"
    /\ REq(args.p1, R(4, 10)) /\ ret.l1 = "CAUTION"
    /\ REq(args.p2, R(7, 10)) /\ ret.l2 = "RISKY"

\* ---------------------------------------------------------------------------
\* SpecScore: predict_with_model and determine_risk_level on bounded feature
\* vectors, with the classifier file in every state and the classifier
\* answering or raising (predict_service.py, steps "AI prediction")
\* ---------------------------------------------------------------------------
MaxRatioTenths == 10   \* ratios range over 0/10 .. MaxRatioTenths/10
MaxClassifierTenths == 10  \* classifier answers range over 0/10 .. k/10
RatioGrid == {R(i, 10) : i \in 0..MaxRatioTenths}
OcrWeights == {RZero, R(1, 10), R(3, 10)}

ScoreVectors ==
    {[jeonse_ratio |-> jr, total_risk_ratio |-> tr,
      is_trust_owner |-> trust, short_term_weight |-> stw] :
        jr \in RatioGrid, tr \in RatioGrid, trust \in {0, 1}, stw \in OcrWeights}
    \cup {<<>>, [jeonse_ratio |-> R(8, 10)], [total_risk_ratio |-> R(9, 10)],
           [is_trust_owner |-> 1]}

ModelFiles == {"absent", "corrupt", "ok"}

Outcomes ==
    {[raises |-> TRUE, prob |-> RZero]}
    \cup {[raises |-> FALSE, prob |-> R(i, 10)] : i \in 0..MaxClassifierTenths}

NoScore ==
    [raised |-> FALSE, prob |-> RZero, level |-> "none",
     rf_before |-> "None", file |-> "absent",
     outcome |-> [raises |-> FALSE, prob |-> RZero]]

InitScore ==
    /\ now = Today
    /\ pc = "score_in"
    /\ args \in [features : ScoreVectors]
    /\ ret = NoScore
    /\ rf_model = "None"
    /\ model_file \in ModelFiles
    /\ PipelineIdle
    /\ AddressIdle

\* prob = predict_with_model(features); risk_level = determine_risk_level(prob)
Score ==
    /\ pc \in {"score_in", "score_out"}
    /\ \E outcome \in Outcomes :
        LET g == get_model(rf_model, model_file)
            r == predict_with_model(args.features, g.model, outcome)
        IN  /\ rf_model' = g.rf_model
            /\ ret' = [raised |-> r.raised, prob |-> r.prob,
                       level |-> IF r.raised THEN "none"
                                 ELSE determine_risk_level(r.prob),
                       rf_before |-> rf_model, file |-> model_file,
                       outcome |-> IF g.model = "None" THEN NoScore.outcome
                                   ELSE outcome]
    /\ pc' = "score_out"
    /\ UNCHANGED <<now, args, model_file, db, loc, trace, bjd_map, bjd_file>>

\* the classifier file is deployed, removed or damaged between two requests
ModelFileChanges ==
    /\ pc = "score_out"
    /\ model_file' \in ModelFiles \ {model_file}
    /\ UNCHANGED <<now, pc, args, ret, rf_model, db, loc, trace, bjd_map, bjd_file>>

NextScore == Score \/ ModelFileChanges

SpecScore == InitScore /\ [][NextScore]_vars

\* the classifier could not be obtained for the call recorded in ret
ClassifierUnavailable == ret.rf_before = "None" /\ ret.file \in {"absent", "corrupt"}

\* C2: predict_with_model never raises; when the classifier file is absent,
\* fails to load, or the prediction call raises, the value returned is exactly
\* the rule-based fallback's value for the same feature vector.
C2_PredictNeverRaisesFallsBack ==
    pc = "score_out" =>
        /\ ~ret.raised
        /\ (ClassifierUnavailable \/ ret.outcome.raises)
            => REq(ret.prob, _rule_based_prediction(args.features))

C2_Witness ==
    /\ pc = "score_out"
    /\ ret.rf_before = "loaded"
    /\ ret.outcome.raises
    /\ ~ret.raised
    /\ REq(ret.prob, R(9, 10))

\* the floors the documented rules propose for a feature vector
RuleFloors(f) ==
    LET jr == Get(f, "jeonse_ratio", RZero)
        tr == Get(f, "total_risk_ratio", RZero)
    IN  {RZero}
        \cup (IF RGe(jr, R(8, 10)) THEN {R(8, 10)}
              ELSE IF RGe(jr, R(7, 10)) THEN {R(5, 10)} ELSE {})
        \cup (IF RGe(tr, R(9, 10)) THEN {R(9, 10)}
              ELSE IF RGe(tr, R(8, 10)) THEN {R(7, 10)} ELSE {})
        \cup (IF Get(f, "is_trust_owner", 0) # 0
                 /\ RGt(Get(f, "short_term_weight", RZero), RZero)
              THEN {R(6, 10)} ELSE {})

MaxOf(S) == CHOOSE x \in S : \A y \in S : RLe(y, x)

Ages == {RInt(5), RInt(30), RInt(31)}

AnalyzeVectors ==
    {[jeonse_ratio |-> jr, real_debt |-> RInt(debt), is_illegal |-> ill,
      is_trust_owner |-> trust, short_term_weight |-> stw, building_age |-> age] :
        jr \in RatioGrid, debt \in 0..MaxDebt, ill \in {0, 1}, trust \in {0, 1},
        stw \in OcrWeights \cup {R(2, 10)}, age \in Ages}
    \cup {<<>>}

InitAnalyze ==
    /\ now = Today
    /\ pc = "analyze_in"
    /\ args \in [features : AnalyzeVectors, is_hug_safe : BOOLEAN]
    /\ ret = [risk_factors |-> <<>>]
    /\ rf_model = "None"
    /\ model_file = "absent"
    /\ PipelineIdle
    /\ AddressIdle

AnalyzeRiskFactors ==
    /\ pc = "analyze_in"
    /\ ret' = [risk_factors |-> analyze_risk_factors(args.features, args.is_hug_safe)]
    /\ pc' = "analyze_out"
    /\ UNCHANGED <<now, args, rf_model, model_file, db, loc, trace, bjd_map, bjd_file>>

NextAnalyze == AnalyzeRiskFactors

SpecAnalyze == InitAnalyze /\ [][NextAnalyze]_vars

Sentinel == [type |-> "NONE", severity |-> "LOW"]

\* the documented factors, in the documented order, each with its condition
DocumentedFactors(f, is_hug_safe) ==
    LET jr == Get(f, "jeonse_ratio", RZero)
        stw == Get(f, "short_term_weight", RZero)
    IN  << [on |-> ~is_hug_safe, type |-> "HUG_INELIGIBLE", severity |-> "CRITICAL"],
           [on |-> RGt(jr, R(7, 10)), type |-> "HIGH_LTV",
            severity |-> IF RGt(jr, R(8, 10)) THEN "HIGH" ELSE "MEDIUM"],
           [on |-> RGt(Get(f, "real_debt", RZero), RZero),
            type |-> "SENIOR_DEBT", severity |-> "HIGH"],
           [on |-> Get(f, "is_illegal", 0) # 0,
            type |-> "ILLEGAL_BUILDING", severity |-> "HIGH"],
           [on |-> Get(f, "is_trust_owner", 0) # 0,
            type |-> "TRUST_PROPERTY", severity |-> "MEDIUM"],
           [on |-> RGt(stw, RZero), type |-> "SHORT_OWNERSHIP",
            severity |-> IF RGe(stw, R(3, 10)) THEN "HIGH" ELSE "MEDIUM"],
           [on |-> RGt(Get(f, "building_age", RZero), RInt(30)),
            type |-> "OLD_BUILDING", severity |-> "LOW"] >>

IsOn(d) == d.on

AnyDocumentedCondition(f, is_hug_safe) ==
    \E i \in 1..7 : DocumentedFactors(f, is_hug_safe)[i].on

InList(x, seq) == \E i \in 1..Len(seq) : seq[i] = x

\* C9: analyze_risk_factors never returns an empty list; the NONE/LOW sentinel
\* is present exactly when no other factor condition holds, and then it is the
\* only element.
C9_NeverEmptySentinelAlone ==
    pc = "analyze_out" =>
        /\ Len(ret.risk_factors) >= 1
        /\ InList(Sentinel, ret.risk_factors)
            = ~AnyDocumentedCondition(args.features, args.is_hug_safe)
        /\ InList(Sentinel, ret.risk_factors) => ret.risk_factors = <<Sentinel>>

C9_Witness ==
    /\ pc = "analyze_out"
    /\ args.is_hug_safe
    /\ DOMAIN args.features # {}
    /\ REq(args.features["jeonse_ratio"], R(5, 10))
    /\ REq(args.features["building_age"], RInt(5))
    /\ ret.risk_factors = <<Sentinel>>

\* C10: the factors are evaluated independently, each appears at most once and
\* exactly when its own condition holds, in the documented relative order and
\* with the documented severities.
C10_FactorsInDocumentedOrder ==
    pc = "analyze_out" =>
        LET on == SelectSeq(DocumentedFactors(args.features, args.is_hug_safe), IsOn)
            got == SelectSeq(ret.risk_factors, LAMBDA x : x # Sentinel)
        IN  /\ Len(got) = Len(on)
            /\ \A i \in 1..Len(on) :
                got[i] = [type |-> on[i].type, severity |-> on[i].severity]

C10_Witness ==
    /\ pc = "analyze_out"
    /\ Len(ret.risk_factors) = 7
    /\ ret.risk_factors[2] = [type |-> "HIGH_LTV", severity |-> "MEDIUM"]
    /\ REq(args.features["jeonse_ratio"], R(8, 10))
    /\ ret.risk_factors[6] = [type |-> "SHORT_OWNERSHIP", severity |-> "MEDIUM"]
    /\ ret.risk_factors[7] = [type |-> "OLD_BUILDING", severity |-> "LOW"]

\* ---------------------------------------------------------------------------
\* Spec: one request served by predict_risk or predict_risk_with_ocr
\* (predict_service.py), estimate_market_price (price_service.py) unfolded
\* into its lookups, the database going down or coming back at any moment
\* ---------------------------------------------------------------------------
QErrs == {"none", "connect", "other"}

BuildingRows ==
    {BuildingOf({"dasedae"}, owner, NoDate, NoDate, 0, 0, "N")
        @@ [unique_number |-> p] :
        owner \in {{}, {"sintak"}}, p \in Pnus}

OcrFeatureSets ==
    {OcrOf(RInt(debt), 0, stw, {"dasedae"}, NoDate, 0) @@ [unique_number |-> p] :
        debt \in {0, 1}, stw \in {RZero, R(3, 10)}, p \in Pnus}

\* the lot address of the parcel the database knows, written with the short
\* province name; the same without lot number; and one in an unlisted district
KnownAddress == Address("seoul", "jongnogu cheongundong", <<"6", "5", "-", "1", "2", "4">>)
NoLotAddress == Address("seoul", "jongnogu cheongundong", <<>>)
UnlistedAddress == Address("seoul", "nowhere", <<"6", "5", "-", "1", "2", "4">>)
RequestAddresses == {KnownAddress, NoLotAddress, UnlistedAddress}

Requests ==
    {[fn |-> "predict_risk", deposit |-> d, address |-> a, ocr_features |-> <<>>] :
        d \in {1, 8}, a \in RequestAddresses}
    \cup {[fn |-> "predict_risk_with_ocr", deposit |-> d, address |-> KnownAddress,
           ocr_features |-> o] :
        d \in {1, 8}, o \in OcrFeatureSets}

Dbs ==
    [available : BOOLEAN, trade : {NoRow, Row(0), Row(10)},
     fetchable : {NoRow, Row(9)}, public : PublicPrices]

InitLoc ==
    [pnu |-> NoPnu, lot_addr |-> NoneAddress, ledger_fetched |-> FALSE,
     building_looked |-> FALSE, building_info |-> <<>>, ocr_features |-> <<>>,
     calls |-> <<>>, t1 |-> RZero, retried |-> FALSE, t2 |-> RZero,
     looked_public |-> FALSE, pp |-> 0,
     est_returned |-> FALSE, est_price |-> RZero, est_source |-> "Unknown",
     market_price |-> RZero, price_source |-> "Unknown",
     public_known |-> FALSE, public_price |-> 0,
     is_hug_safe |-> FALSE, hug_limit |-> RZero,
     features |-> <<>>, prob |-> RZero, risk_level |-> "none",
     risk_factors |-> <<>>]

NoResp == [kind |-> "none", code |-> 0, detail |-> ""]
ErrorResp(code, detail) == [kind |-> "error", code |-> code, detail |-> detail]
OkResp == [kind |-> "ok", code |-> 200, detail |-> ""]
RaisedResp(exc) == [kind |-> "raised", code |-> 0, detail |-> exc]

Init ==
    /\ now = Today
    /\ pc = "start"
    /\ args \in Requests
    /\ ret = NoResp
    /\ rf_model = "None"
    /\ model_file \in {"absent", "ok"}
    /\ db \in Dbs
    /\ loc = InitLoc
    /\ trace = <<>>
    /\ AddressIdle

Finish(r) == pc' = "done" /\ ret' = r
Goto(l) == pc' = l /\ ret' = ret
Called(l, fn) == [l EXCEPT !.calls = Append(@, fn)]

\* estimate_market_price returns (price, source) to the request
EstReturn(l, price, source) ==
    [l EXCEPT !.est_returned = TRUE, !.est_price = price, !.est_source = source,
              !.market_price = price, !.price_source = source]

\* _resolve_address.  kakao is what the geocoder does: "fallback" (not
\* imported, or it raises: the given address is used), "none" (it answers
\* None), "canonical" (it answers the lot address of the known parcel).  The
\* function hands back a dict, with or without a pnu, never None.
_resolve_address(address, kakao, m, file) ==
    LET lot_addr == IF kakao = "fallback" THEN normalize_address(address)
                    ELSE IF kakao = "none" THEN normalize_address(NoneAddress)
                    ELSE normalize_address(KnownAddress)
        g == get_bjd_map(m, file)
        r == convert_address_to_pnu(lot_addr, g.map)
    IN  [raised |-> r.raised, is_none |-> FALSE, lot_address |-> lot_addr,
         pnu |-> r.pnu, bjd_map |-> g.bjd_map]

\* predict_risk 1: address_info = _resolve_address(address);
\* "if not address_info: return error"
ResolveAddress ==
    /\ pc = "start" /\ args.fn = "predict_risk"
    /\ \E kakao \in {"fallback", "none", "canonical"} :
        LET r == _resolve_address(args.address, kakao, bjd_map, bjd_file)
        IN  /\ bjd_map' = r.bjd_map
            /\ IF r.raised # ""
               THEN loc' = loc /\ Finish(ErrorResp(0, "exception"))
               ELSE IF r.is_none
               THEN loc' = loc /\ Finish(ErrorResp(0, "cannot_resolve_address"))
               ELSE /\ loc' = [loc EXCEPT !.pnu = r.pnu, !.lot_addr = r.lot_address]
                    /\ Goto("ledger")
    /\ UNCHANGED <<now, args, rf_model, model_file, db, trace, bjd_file>>

\* predict_risk 2: fetch_building_ledger when there is a pnu
FetchBuildingLedger ==
    /\ pc = "ledger"
    /\ IF loc.pnu # NoPnu
       THEN /\ loc' = [loc EXCEPT !.ledger_fetched = TRUE]
            /\ \E success \in BOOLEAN :
                IF success THEN Goto("building")
                ELSE Finish(ErrorResp(0, "collect_failed"))
       ELSE loc' = loc /\ Goto("building")
    /\ UNCHANGED <<now, args, rf_model, model_file, db, trace, bjd_map, bjd_file>>

\* predict_risk 3: _get_building_info looks the row up by pnu and, without a
\* pnu or a row for it, by the address text (LIKE %address%); the row's
\* unique_number, if any, becomes the key of the price lookups
GetBuildingInfo ==
    /\ pc = "building"
    /\ \/ /\ Finish(ErrorResp(0, "no_building"))
          /\ loc' = [loc EXCEPT !.building_looked = TRUE]
       \/ \E b \in BuildingRows :
            /\ loc' = [loc EXCEPT !.building_looked = TRUE,
                                  !.building_info = b,
                                  !.pnu = IF b.unique_number # NoPnu
                                          THEN b.unique_number ELSE @]
            /\ Goto("est_trade")
    /\ UNCHANGED <<now, args, rf_model, model_file, db, trace, bjd_map, bjd_file>>

\* predict_risk_with_ocr 1: extract_ocr_features
ExtractOcrFeatures ==
    /\ pc = "start" /\ args.fn = "predict_risk_with_ocr"
    /\ loc' = [loc EXCEPT !.ocr_features = args.ocr_features,
                          !.pnu = args.ocr_features.unique_number]
    /\ Goto("est_trade")
    /\ UNCHANGED <<now, args, rf_model, model_file, db, trace, bjd_map, bjd_file>>

\* estimate_market_price 1: get_trade_price
EstTradeLookup ==
    /\ pc = "est_trade"
    /\ \E q \in QErrs :
        LET r == get_trade_price(loc.pnu, db.available, db.trade, q)
            l == [Called(loc, "get_trade_price") EXCEPT !.t1 = r.price]
        IN  IF r.raised # ""
            THEN loc' = Called(loc, "get_trade_price") /\ Finish(RaisedResp(r.raised))
            ELSE IF TradeFound(r.price)
                 THEN loc' = EstReturn(l, r.price, r.source) /\ Goto("priced")
                 ELSE loc' = l /\ Goto("est_guard")
    /\ UNCHANGED <<now, args, rf_model, model_file, db, trace, bjd_map, bjd_file>>

\* estimate_market_price 2: "if fetch_if_missing and parsed and is_db_available()"
\* (both callers leave fetch_if_missing at its default, True)
EstFetchGuard ==
    /\ pc = "est_guard"
    /\ IF parse_pnu(loc.pnu).ok /\ db.available
       THEN Goto("est_fetch") ELSE Goto("est_public")
    /\ UNCHANGED <<now, args, rf_model, model_file, db, loc, trace, bjd_map, bjd_file>>

\* fetch_real_price_from_api: raises when the database is down (at entry or
\* in check_price_log), returns False when the collectors cannot be imported,
\* raises something else (get_bjdong_code_map), or stores what the external
\* API has for the parcel
EstFetch ==
    /\ pc = "est_fetch"
    /\ loc' = Called(loc, "fetch_real_price_from_api")
    /\ \E o \in {"done", "import_error", "exception", "db_error"} :
        IF ~db.available \/ o = "db_error"
        THEN Finish(RaisedResp(DbErr)) /\ db' = db
        ELSE IF o = "exception" THEN Goto("est_public") /\ db' = db
        ELSE IF o = "import_error" THEN Goto("est_retry") /\ db' = db
        ELSE /\ Goto("est_retry")
             /\ db' = [db EXCEPT !.trade = IF db.fetchable.exists
                                            THEN db.fetchable ELSE @]
    /\ UNCHANGED <<now, args, rf_model, model_file, trace, bjd_map, bjd_file>>

\* estimate_market_price 2, second half: get_trade_price again
EstTradeRetry ==
    /\ pc = "est_retry"
    /\ \E q \in QErrs :
        LET r == get_trade_price(loc.pnu, db.available, db.trade, q)
            l == [Called(loc, "get_trade_price") EXCEPT !.t2 = r.price,
                                                        !.retried = TRUE]
        IN  IF r.raised # ""
            THEN loc' = Called(loc, "get_trade_price") /\ Finish(RaisedResp(r.raised))
            ELSE IF TradeFound(r.price)
                 THEN loc' = EstReturn(l, r.price, r.source) /\ Goto("priced")
                 ELSE loc' = l /\ Goto("est_public")
    /\ UNCHANGED <<now, args, rf_model, model_file, db, trace, bjd_map, bjd_file>>

\* estimate_market_price 3: get_public_price, estimate = assessed x 1.26
EstPublicLookup ==
    /\ pc = "est_public"
    /\ \E q \in QErrs :
        LET r == get_public_price(loc.pnu, db.available, db.public, q)
            l == [Called(loc, "get_public_price") EXCEPT !.pp = r.price,
                                                         !.looked_public = TRUE]
        IN  IF r.raised # ""
            THEN loc' = Called(loc, "get_public_price") /\ Finish(RaisedResp(r.raised))
            ELSE IF r.price > 0
                 THEN /\ loc' = EstReturn(l, EstimateFromPublic(r.price),
                                          "Public_Price_Estimate")
                      /\ Goto("priced")
                 ELSE loc' = EstReturn(l, RZero, "Unknown") /\ Goto("priced")
    /\ UNCHANGED <<now, args, rf_model, model_file, db, trace, bjd_map, bjd_file>>

\* predict_risk 4: "if market_price <= 0: return error"
PriceCheck ==
    /\ pc = "priced" /\ args.fn = "predict_risk"
    /\ IF NoMarketPrice(loc.market_price)
       THEN Finish(ErrorResp(0, "no_market_price"))
       ELSE Goto("public")
    /\ UNCHANGED <<now, args, rf_model, model_file, db, loc, trace, bjd_map, bjd_file>>

\* predict_risk 5 / predict_risk_with_ocr 3: get_public_price and
\* calculate_hug_eligibility; predict_risk_with_ocr then takes the HUG limit
\* for a missing market price and answers 422 when there is still none
PublicLookup ==
    /\ \/ pc = "public"
       \/ pc = "priced" /\ args.fn = "predict_risk_with_ocr"
    /\ \E q \in QErrs :
        LET r == get_public_price(loc.pnu, db.available, db.public, q)
            h == calculate_hug_eligibility(r.price, args.deposit)
            l == [loc EXCEPT !.public_known = TRUE, !.public_price = r.price,
                             !.is_hug_safe = h.is_hug_safe,
                             !.hug_limit = h.hug_limit]
            sub == NoMarketPrice(loc.market_price) /\ RGt(h.hug_limit, RZero)
            l2 == IF sub
                  THEN [l EXCEPT !.market_price = h.hug_limit,
                                 !.price_source = "Public_Price_Estimate"]
                  ELSE l
        IN  IF r.raised # "" THEN loc' = loc /\ Finish(RaisedResp(r.raised))
            ELSE IF args.fn = "predict_risk" THEN loc' = l /\ Goto("score")
            ELSE /\ loc' = l2
                 /\ IF NoMarketPrice(l2.market_price)
                    THEN Finish(ErrorResp(422, "no_market_price"))
                    ELSE Goto("score")
    /\ UNCHANGED <<now, args, rf_model, model_file, db, trace, bjd_map, bjd_file>>

\* the rest of the request: calculate_risk_features, predict_with_model,
\* determine_risk_level, (with OCR) analyze_risk_factors, the response; an
\* exception on the way is caught and answered as an error
ScoreRequest ==
    /\ pc = "score"
    /\ \E outcome \in {[raises |-> TRUE, prob |-> RZero],
                        [raises |-> FALSE, prob |-> R(3, 10)]} :
        LET f0 == calculate_risk_features(args.deposit, loc.market_price,
                                          loc.public_price, loc.building_info,
                                          loc.ocr_features, now)
            f == IF args.fn = "predict_risk_with_ocr" /\ loc.public_price > 0
                 THEN [f0 EXCEPT !["hug_risk_ratio"] =
                          R(args.deposit * 10000 * 100, loc.public_price * 126)]
                 ELSE f0
            g == get_model(rf_model, model_file)
            r == predict_with_model(f, g.model, outcome)
            lvl == determine_risk_level(r.prob)
        IN  /\ rf_model' = g.rf_model
            /\ trace' = trace \o
                   << [fn |-> "calculate_risk_features", market |-> loc.market_price],
                      [fn |-> "predict_with_model", market |-> loc.market_price] >>
                   \o (IF args.fn = "predict_risk" /\ ~r.raised
                       THEN << [fn |-> "save_prediction_result",
                                market |-> loc.market_price] >>
                       ELSE <<>>)
            /\ IF r.raised
               THEN loc' = [loc EXCEPT !.features = f] /\ Finish(ErrorResp(500, "exception"))
               ELSE /\ loc' = [loc EXCEPT
                                 !.features = f, !.prob = r.prob, !.risk_level = lvl,
                                 !.risk_factors =
                                     IF args.fn = "predict_risk_with_ocr"
                                     THEN analyze_risk_factors(f, loc.is_hug_safe)
                                     ELSE <<>>]
                    /\ Finish(OkResp)
    /\ UNCHANGED <<now, args, model_file, db, bjd_map, bjd_file>>

\* the database goes down or comes back while the request is served
DbChanges ==
    /\ pc \notin {"start", "done"}
    /\ db' = [db EXCEPT !.available = ~@]
    /\ UNCHANGED <<now, pc, args, ret, rf_model, model_file, loc, trace, bjd_map, bjd_file>>

Next ==
    \/ ResolveAddress
    \/ FetchBuildingLedger
    \/ GetBuildingInfo
    \/ ExtractOcrFeatures
    \/ EstTradeLookup
    \/ EstFetchGuard
    \/ EstFetch
    \/ EstTradeRetry
    \/ EstPublicLookup
    \/ PriceCheck
    \/ PublicLookup
    \/ ScoreRequest
    \/ DbChanges

Spec == Init /\ [][Next]_vars

\* the lookups of the request completed and found neither a transaction price
\* nor an assessed price
NoPriceResolved ==
    /\ loc.est_returned
    /\ ~RGt(loc.est_price, RZero)
    /\ args.fn = "predict_risk_with_ocr" => (loc.public_known /\ loc.public_price <= 0)

\* C1: when no market price above 0 can be resolved the request ends with an
\* error response, and neither calculate_risk_features nor predict_with_model
\* is ever invoked with a market price that is zero or negative.
C1_NoScoringWithoutPrice ==
    /\ \A i \in 1..Len(trace) : RGt(trace[i].market, RZero)
    /\ (pc = "done" /\ NoPriceResolved) => (ret.kind = "error" /\ trace = <<>>)

C1_Witness ==
    /\ pc = "done"
    /\ args.fn = "predict_risk_with_ocr"
    /\ NoPriceResolved
    /\ loc.calls = <<"get_trade_price", "fetch_real_price_from_api",
                     "get_trade_price", "get_public_price">>
    /\ ret = ErrorResp(422, "no_market_price")
    /\ trace = <<>>

\* C5: estimate_market_price follows the chain in order: the transaction price
\* tagged DB_Trade when a positive one is found on the first lookup or on the
\* retry after the on-demand fetch; otherwise assessed price x 1.26 tagged
\* Public_Price_Estimate when a positive assessed price exists; otherwise
\* (0, Unknown).  The fetch and the assessed-price lookup happen only when
\* every earlier step yielded no positive price, and the returned price is
\* > 0 exactly when the tag is not Unknown.
C5_EstimateFallbackChain ==
    /\ InList("fetch_real_price_from_api", loc.calls) => ~RGt(loc.t1, RZero)
    /\ InList("get_public_price", loc.calls)
        => (~RGt(loc.t1, RZero) /\ (loc.retried => ~RGt(loc.t2, RZero)))
    /\ loc.est_returned =>
        /\ IF RGt(loc.t1, RZero)
           THEN /\ REq(loc.est_price, loc.t1) /\ loc.est_source = "DB_Trade"
                /\ loc.calls = <<"get_trade_price">>
           ELSE IF loc.retried /\ RGt(loc.t2, RZero)
           THEN /\ REq(loc.est_price, loc.t2) /\ loc.est_source = "DB_Trade"
                /\ loc.calls = <<"get_trade_price", "fetch_real_price_from_api",
                                 "get_trade_price">>
           ELSE IF loc.pp > 0
           THEN /\ REq(loc.est_price, R(loc.pp * 126, 1000000))
                /\ loc.est_source = "Public_Price_Estimate"
           ELSE REq(loc.est_price, RZero) /\ loc.est_source = "Unknown"
        /\ RGt(loc.est_price, RZero) = (loc.est_source # "Unknown")

C5_Witness ==
    /\ loc.est_returned
    /\ loc.calls = <<"get_trade_price", "fetch_real_price_from_api",
                     "get_trade_price", "get_public_price">>
    /\ loc.est_source = "Public_Price_Estimate"
    /\ REq(loc.est_price, R(126, 100))

\* deposit / (assessed price x 1.26), deposit in manwon and assessed price in won
HugRatioOfAssessed(deposit_manwon, public_price) ==
    R(deposit_manwon * 10000 * 100, public_price * 126)

\* C11: in a scored request hug_risk_ratio equals deposit / (assessed price x
\* 1.26) when the assessed price is known (> 0) and deposit / market price
\* otherwise, and the insurance-eligibility flag is true exactly when the
\* assessed price is known and that ratio is <= 1.
C11_HugRatioAndEligibility ==
    (pc = "done" /\ ret = OkResp) =>
        LET known == loc.public_price > 0
            expected == IF known
                        THEN HugRatioOfAssessed(args.deposit, loc.public_price)
                        ELSE RDiv(RInt(args.deposit), loc.market_price)
        IN  /\ REq(loc.features["hug_risk_ratio"], expected)
            /\ loc.is_hug_safe = (known /\ RLe(expected, ROne))

C11_Witness ==
    /\ pc = "done" /\ ret = OkResp
    /\ args.fn = "predict_risk_with_ocr"
    /\ args.deposit = 1
    /\ loc.price_source = "DB_Trade"
    /\ loc.public_price = 2 * 10000
    /\ REq(loc.features["hug_risk_ratio"], R(100, 252))
    /\ loc.is_hug_safe

\* ---------------------------------------------------------------------------
\* Totality of the two feature calculators (SpecCalc)
\* ---------------------------------------------------------------------------
FeatureFields ==
    {"jeonse_ratio", "hug_risk_ratio", "total_risk_ratio", "estimated_loan_ratio",
     "building_age", "is_illegal", "parking_per_household", "is_micro_complex",
     "is_trust_owner", "short_term_weight"} \cup TypeCols

\* the price the ratios are divided by is zero
ZeroDenominator ==
    IF ret.fn = "risk_calculator" THEN REq(args.market, RZero)
    ELSE RLe(args.market, RZero) /\ args.deposit = 0

\* C12: calculate_risk_features is total: for every input (market price <= 0,
\* deposit 0, household count 0 or missing, approval date missing or
\* unparseable included) it returns a feature vector without raising, with
\* every field present, and a ratio whose denominator would be zero is 0.
\* (Violated by feature_service.calculate_risk_features, which divides by
\* deposit x 1.25 when the market price is <= 0: a zero deposit raises.)
C12_CalculateIsTotal ==
    pc = "calc_out" =>
        /\ ~ret.raised
        /\ FeatureFields \subseteq DOMAIN ret.f
        /\ ZeroDenominator =>
            /\ REq(ret.f["jeonse_ratio"], RZero)
            /\ REq(ret.f["total_risk_ratio"], RZero)

\* ---------------------------------------------------------------------------
\* ocr_parser_service.py
\* ---------------------------------------------------------------------------
\* A JSON value is tagged with its type: null, dict (a function from keys to
\* JSON values), list (a sequence), str or bool.  The payload of a str is
\* what the field holds: a keyword set for free text, a date, a sequence of
\* characters for an area or an amount, a word for a debt status.
JNull == [t |-> "null", v |-> 0]
JDict(d) == [t |-> "dict", v |-> d]
JList(s) == [t |-> "list", v |-> s]
JStr(x) == [t |-> "str", v |-> x]
JBool(b) == [t |-> "bool", v |-> b]
EmptyDict == JDict(<<>>)

\* d.get(k, default) on a dict
JGet(d, k, default) == IF k \in DOMAIN d.v THEN d.v[k] ELSE default

\* x.get(...) raises AttributeError unless x is a dict
GetRaises(x) == x.t # "dict"

\* "x or {}"
OrEmptyDict(x) == IF x.t = "dict" /\ DOMAIN x.v # {} THEN x ELSE EmptyDict

\* str(x) of a free-text field: the keywords it contains ('None' has none)
TextOf(x, empty) == IF x.t = "str" THEN x.v ELSE empty

\* re.findall(r'[\d.]+', s)[0]: the first maximal run of digits and dots
RECURSIVE TakeRun(_)
TakeRun(s) ==
    IF s = <<>> \/ Head(s) \notin Digits \cup {"."} THEN <<>>
    ELSE <<Head(s)>> \o TakeRun(Tail(s))

RECURSIVE FirstRun(_)
FirstRun(s) ==
    IF s = <<>> THEN <<>>
    ELSE IF Head(s) \in Digits \cup {"."} THEN TakeRun(s)
    ELSE FirstRun(Tail(s))

CountOf(s, c) == Cardinality({i \in 1..Len(s) : s[i] = c})
NumDigits(s) == Cardinality({i \in 1..Len(s) : s[i] \in Digits})
RECURSIVE Pow10(_)
Pow10(n) == IF n = 0 THEN 1 ELSE 10 * Pow10(n - 1)

\* float(run): ValueError unless the run has a digit and at most one dot
FloatRaises(run) == NumDigits(run) = 0 \/ CountOf(run, ".") > 1
FloatOf(run) ==
    LET dot == IF CountOf(run, ".") = 0 THEN Len(run) + 1
               ELSE CHOOSE i \in 1..Len(run) : run[i] = "."
    IN  R(DigitsValue(run, 0), Pow10(Len(run) - dot + (IF dot > Len(run) THEN 1 ELSE 0)))

NoNumber == [some |-> FALSE, val |-> RZero]
Number(x) == [some |-> TRUE, val |-> x]

\* area parsing, _parse_building_ledger
AreaSize(area_raw) ==
    IF area_raw.t # "str" \/ area_raw.v = <<>> THEN NoNumber
    ELSE LET run == FirstRun(area_raw.v)
         IN  IF run = <<>> THEN NoNumber
             ELSE IF FloatRaises(run) THEN NoNumber
             ELSE Number(FloatOf(run))

Returned(f) == [raised |-> "", f |-> f]
Raised(exc) == [raised |-> exc, f |-> <<>>]

_parse_building_ledger(ledger) ==
    LET building_status == JGet(ledger, "building_status", EmptyDict)
        document_info == JGet(ledger, "document_info", EmptyDict)
        safety == JGet(ledger, "safety_check", EmptyDict)
    IN  IF GetRaises(document_info) \/ GetRaises(building_status) \/ GetRaises(safety)
        THEN Raised("AttributeError")
        ELSE LET un == JGet(document_info, "unique_number", JStr(NoPnu))
                 uad == JGet(building_status, "usage_approval_date", JStr(NoDate))
                 iv == JGet(safety, "is_violator", JNull)
             IN  Returned(
                  [unique_number |-> IF un.t = "str" THEN un.v ELSE NoPnu,
                   main_use |-> TextOf(JGet(building_status, "main_usage", JStr({})),
                                       {"other"}),
                   area_size |-> AreaSize(JGet(building_status, "area", JNull)),
                   usage_approval_date |-> IF uad.t = "str" THEN uad.v ELSE NoDate,
                   is_illegal |-> IF iv.t = "bool" /\ iv.v THEN 1 ELSE 0])

\* _parse_date_string: a datetime (Day) or None (NoDate)
_parse_date_string(date_str) ==
    IF ~DateTruthy(date_str) THEN NoDate
    ELSE IF date_str.k = "day" THEN date_str
    ELSE NoDate

\* status.lower()
Lower(status) == IF status = "CANCELLED" THEN "cancelled" ELSE status

\* the amount of one debt record: amount text without commas, its digit runs
\* joined ('0' when the key is absent, 'None' for null)
DebtAmount(item) ==
    LET amount == JGet(item, "amount", JStr(<<"0">>))
    IN  IF amount.t # "str" THEN NoNumber
        ELSE IF NumDigits(amount.v) = 0 THEN NoNumber
        ELSE Number(RInt(DigitsValue(amount.v, 0)))

\* _calculate_total_debt, in won
RECURSIVE _calculate_total_debt(_, _)
_calculate_total_debt(debts, total) ==
    IF debts.t # "list" THEN Raised("TypeError")
    ELSE IF debts.v = <<>> THEN Returned(total)
    ELSE LET item == Head(debts.v)
             rest == JList(Tail(debts.v))
         IN  IF GetRaises(item) THEN Raised("AttributeError")
             ELSE LET status == JGet(item, "status", JStr(""))
                  IN  IF status.t # "str" THEN Raised("AttributeError")
                      ELSE IF Lower(status.v) \in {"cancelled", "deleted", "malso"}
                           THEN _calculate_total_debt(rest, total)
                      ELSE LET a == DebtAmount(item)
                           IN  _calculate_total_debt(
                                   rest, IF a.some THEN RAdd(total, a.val) ELSE total)

\* short-term ownership weight of _parse_registry
OwnershipWeight_Swapped(days_diff) ==
    IF days_diff < 90 THEN R(1, 10)
    ELSE IF days_diff < 730 THEN R(3, 10)
    ELSE RZero

OwnershipWeight(days_diff) ==
    IF days_diff < 90 THEN R(3, 10)
    ELSE IF days_diff < 730 THEN R(1, 10)
    ELSE RZero

_parse_registry(registry, now_) ==
    LET basic_info == JGet(registry, "basic_info", EmptyDict)
        risk_factors == JGet(registry, "risk_factors", EmptyDict)
    IN  IF GetRaises(basic_info) \/ GetRaises(risk_factors)
        THEN Raised("AttributeError")
        ELSE
        LET owner_name == TextOf(JGet(basic_info, "owner", JStr({})), {"other"})
            trust_content == TextOf(JGet(risk_factors, "trust_content", JStr({})),
                                    {"other"})
            od == JGet(basic_info, "ownership_date", JStr(NoDate))
            ownership_date_str == IF od.t = "str" THEN od.v ELSE NoDate
            parsed_date == _parse_date_string(ownership_date_str)
            dated == DateTruthy(ownership_date_str) /\ DateTruthy(parsed_date)
            days_diff == now_ - parsed_date.day
            debt == _calculate_total_debt(JGet(registry, "debts", JList(<<>>)), RZero)
        IN  IF debt.raised # "" THEN Raised(debt.raised)
            ELSE Returned(
                  [is_trust_owner |-> IF Contains(owner_name, "sintak")
                                         \/ Contains(trust_content, "sintak")
                                      THEN 1 ELSE 0,
                   short_term_weight |-> IF dated THEN OwnershipWeight(days_diff)
                                         ELSE RZero,
                   real_debt_manwon |-> RDiv(debt.f, RInt(10000)),
                   ownership_duration_months |->
                       IF dated THEN Number(RInt(days_diff \div 30)) ELSE NoNumber])

extract_ocr_features(ocr_data, now_) ==
    LET ledger == OrEmptyDict(JGet(ocr_data, "ledger", JNull))
        registry == OrEmptyDict(JGet(ocr_data, "registry", JNull))
        ledger_features == _parse_building_ledger(ledger)
        registry_features == _parse_registry(registry, now_)
    IN  IF ledger_features.raised # "" THEN ledger_features
        ELSE IF registry_features.raised # "" THEN registry_features
        ELSE Returned(registry_features.f @@ ledger_features.f)

\* ---------------------------------------------------------------------------
\* SpecOcr: extract_ocr_features applied to bounded OCR JSON documents, then
\* the feature calculation and factor analysis of predict_risk_with_ocr; and
\* the feature calculation of predict_risk on a building_info row
\* ---------------------------------------------------------------------------
MaxAreaLen == 3          \* area texts have at most this many characters
MaxAmountLen == 2        \* amount texts have at most this many characters
MaxOwnershipDays == 731  \* ownership changes from 1 day ahead to this many days ago

\* the dicts with key k absent or holding one of vals
Opt(k, vals) == {<<>>} \cup {[x \in {k} |-> v] : v \in vals}

RECURSIVE SeqsUpTo(_, _)
SeqsUpTo(S, n) ==
    IF n = 0 THEN {<<>>}
    ELSE LET shorter == SeqsUpTo(S, n - 1)
         IN  shorter \cup {Append(q, c) : q \in shorter, c \in S}

SomeBuildingStatus ==
    JDict([main_usage |-> JStr({"dasedae"}), area |-> JStr(<<"8", "4", ".", "5", "m">>),
           usage_approval_date |-> JStr(Day(Today - 5 * 365))])
SomeDebt == JDict([status |-> JStr("active"), amount |-> JStr(<<"1", "0", "0", "0", "0">>)])

LedgerShapes ==
    {JDict(a @@ b @@ c) :
        a \in Opt("building_status", {JNull, EmptyDict, SomeBuildingStatus}),
        b \in Opt("document_info", {JNull, JDict([unique_number |-> JStr(HyphenPnu)])}),
        c \in Opt("safety_check", {JNull, JDict([is_violator |-> JBool(TRUE)])})}

RegistryShapes ==
    {JDict(a @@ b @@ c) :
        a \in Opt("basic_info", {JNull, JDict([owner |-> JStr({"sintak"})])}),
        b \in Opt("risk_factors", {JNull, JDict([trust_content |-> JStr({"other"})])}),
        c \in Opt("debts", {JNull, JList(<<>>), JList(<<SomeDebt>>)})}

NullSweep ==
    {JDict(a @@ b) : a \in Opt("ledger", {JNull} \cup LedgerShapes),
                     b \in Opt("registry", {JNull} \cup RegistryShapes)}

LeafSweep ==
    {JDict([ledger |-> JDict([building_status |-> JDict(a @@ b @@ c),
                              safety_check |-> JDict(d)])]) :
        a \in Opt("main_usage", {JNull, JStr({}), JStr({"apateu"})}),
        b \in Opt("area", {JNull} \cup {JStr(q) : q \in SeqsUpTo({"8", ".", "m"}, MaxAreaLen)}),
        c \in Opt("usage_approval_date", {JNull, JStr(NoDate), JStr(BadDate)}),
        d \in Opt("is_violator", {JNull, JBool(FALSE), JBool(TRUE)})}

DebtRecords ==
    {JDict(a @@ b) :
        a \in Opt("status", {JNull} \cup {JStr(w) : w \in {"active", "cancelled",
                                               "CANCELLED", "deleted", "malso"}}),
        b \in Opt("amount", {JNull} \cup {JStr(q) : q \in SeqsUpTo({"1", "0", ",", "w"},
                                                               MaxAmountLen)})}

DebtSweep ==
    {JDict([registry |-> JDict([debts |-> JList(l)])]) :
        l \in {<<r>> : r \in DebtRecords}
              \cup {<<r, r2>> : r \in DebtRecords,
                                r2 \in {SomeDebt, JDict([status |-> JStr("malso"),
                                                         amount |-> JStr(<<"1">>)])}}}

OwnershipSweep ==
    {JDict([registry |-> JDict([basic_info |-> JDict(a @@ b),
                                risk_factors |-> JDict(c)])]) :
        a \in Opt("ownership_date",
                  {JNull, JStr(NoDate), JStr(BadDate)}
                  \cup {JStr(Day(Today - d)) : d \in (0 - 1)..MaxOwnershipDays}),
        b \in Opt("owner", {JNull, JStr({"sintak"})}),
        c \in Opt("trust_content", {JNull, JStr({"sintak"})})}

OcrJsons == NullSweep \cup LeafSweep \cup DebtSweep \cup OwnershipSweep

LedgerRows ==
    {BuildingOf({"apateu"}, {}, od, NoDate, 0, 0, "N") :
        od \in {NoDate, BadDate} \cup {Day(Today - d) : d \in (0 - 1)..MaxOwnershipDays}}
    \cup {[main_use |-> {"apateu"}]}

NoExtract == [raised |-> "", f |-> <<>>, features |-> <<>>, risk_factors |-> <<>>]

InitOcr ==
    /\ now = Today
    /\ pc = "ocr_in"
    /\ args \in [fn : {"predict_risk_with_ocr"}, deposit : {8}, market : {10},
                 ocr_data : OcrJsons, building_info : {<<>>}]
             \cup [fn : {"predict_risk"}, deposit : {8}, market : {10},
                   ocr_data : {EmptyDict}, building_info : LedgerRows]
    /\ ret = NoExtract
    /\ rf_model = "None"
    /\ model_file = "absent"
    /\ PipelineIdle
    /\ AddressIdle

\* predict_risk_with_ocr 1: ocr_features = extract_ocr_features(ocr_data)
ExtractOcr ==
    /\ pc = "ocr_in" /\ args.fn = "predict_risk_with_ocr"
    /\ LET r == extract_ocr_features(args.ocr_data, now)
       IN  ret' = [ret EXCEPT !.raised = r.raised, !.f = r.f]
    /\ pc' = "ocr_out"
    /\ UNCHANGED <<now, args, rf_model, model_file, db, loc, trace, bjd_map, bjd_file>>

\* predict_risk_with_ocr 4 and 6: the features of the extracted values and
\* their risk factors
CalcFromOcr ==
    /\ pc = "ocr_out" /\ ret.raised = ""
    /\ LET f == calculate_risk_features(args.deposit, RInt(args.market), 0,
                                        <<>>, ret.f, now)
       IN  ret' = [ret EXCEPT !.features = f,
                              !.risk_factors = analyze_risk_factors(f, FALSE)]
    /\ pc' = "ocr_scored"
    /\ UNCHANGED <<now, args, rf_model, model_file, db, loc, trace, bjd_map, bjd_file>>

\* predict_risk 6: the features of a building_info row
CalcFromLedger ==
    /\ pc = "ocr_in" /\ args.fn = "predict_risk"
    /\ ret' = [ret EXCEPT !.features =
                  calculate_risk_features(args.deposit, RInt(args.market), 0,
                                          args.building_info, <<>>, now)]
    /\ pc' = "ocr_scored"
    /\ UNCHANGED <<now, args, rf_model, model_file, db, loc, trace, bjd_map, bjd_file>>

NextOcr == ExtractOcr \/ CalcFromOcr \/ CalcFromLedger

SpecOcr == InitOcr /\ [][NextOcr]_vars

\* the value under a path of keys, null when a key on the way is absent or null
Dig2(d, k1, k2) ==
    LET a == IF d.t = "dict" /\ k1 \in DOMAIN d.v THEN d.v[k1] ELSE JNull
    IN  IF a.t = "dict" /\ k2 \in DOMAIN a.v THEN a.v[k2] ELSE JNull

Dig3(d, k1, k2, k3) ==
    LET a == Dig2(d, k1, k2)
    IN  IF a.t = "dict" /\ k3 \in DOMAIN a.v THEN a.v[k3] ELSE JNull

Missing(x) == x.t = "null"

\* C13: extract_ocr_features has no failure mode: whichever keys of the OCR
\* JSON are absent or null, at any nesting level, it returns a result and never
\* raises, and the result carries the documented defaults: area null, senior
\* debt 0, short-term weight 0, flags 0.
\* (Violated: only ledger and registry are read with "or {}"; a null under any
\* nested key reaches a .get, a for loop or a .lower() and raises.)
C13_ExtractNeverRaises ==
    (pc \in {"ocr_out", "ocr_scored"} /\ args.fn = "predict_risk_with_ocr") =>
        /\ ret.raised = ""
        /\ Missing(Dig3(args.ocr_data, "ledger", "building_status", "area"))
            => ~ret.f.area_size.some
        /\ Missing(Dig2(args.ocr_data, "registry", "debts"))
            => REq(ret.f.real_debt_manwon, RZero)
        /\ Missing(Dig3(args.ocr_data, "registry", "basic_info", "ownership_date"))
            => REq(ret.f.short_term_weight, RZero)
        /\ Missing(Dig3(args.ocr_data, "ledger", "safety_check", "is_violator"))
            => ret.f.is_illegal = 0
        /\ (/\ Missing(Dig3(args.ocr_data, "registry", "basic_info", "owner"))
            /\ Missing(Dig3(args.ocr_data, "registry", "risk_factors", "trust_content")))
            => ret.f.is_trust_owner = 0

\* the ownership-change date the weight is computed from: the registry's
\* ownership_date (OCR) or the row's ownership_changed_date (ledger)
OwnershipDateOf(a) ==
    IF a.fn = "predict_risk_with_ocr"
    THEN LET od == Dig3(a.ocr_data, "registry", "basic_info", "ownership_date")
         IN  IF od.t = "str" THEN od.v ELSE NoDate
    ELSE Get(a.building_info, "ownership_changed_date", NoDate)

\* the documented step function of the days elapsed
DocumentedWeight(date, now_) ==
    IF date.k # "day" THEN RZero
    ELSE IF now_ - date.day < 90 THEN R(3, 10)
    ELSE IF now_ - date.day < 730 THEN R(1, 10)
    ELSE RZero

\* C14: the short-term-ownership weight is a step function of the days elapsed
\* since the ownership-change date: 0.3 under 90 days, 0.1 from 90 to under
\* 730 days, 0.0 otherwise or when the date is missing or unparseable; it is
\* always one of 0.0, 0.1, 0.3, and a weight of 0.3 (a change 30 days old)
\* comes with a SHORT_OWNERSHIP factor of severity HIGH.
C14_ShortTermWeightIsStep ==
    LET expected == DocumentedWeight(OwnershipDateOf(args), now)
    IN  /\ (pc \in {"ocr_out", "ocr_scored"} /\ args.fn = "predict_risk_with_ocr"
            /\ ret.raised = "")
            => REq(ret.f.short_term_weight, expected)
        /\ pc = "ocr_scored" =>
            /\ REq(ret.features["short_term_weight"], expected)
            /\ ret.features["short_term_weight"] \in {RZero, R(1, 10), R(3, 10)}
            /\ (args.fn = "predict_risk_with_ocr" /\ REq(expected, R(3, 10)))
                => InList([type |-> "SHORT_OWNERSHIP", severity |-> "HIGH"],
                          ret.risk_factors)

C14_Witness ==
    /\ pc = "ocr_scored"
    /\ args.fn = "predict_risk_with_ocr"
    /\ OwnershipDateOf(args) = Day(Today - 30)
    /\ REq(ret.features["short_term_weight"], R(3, 10))
    /\ InList([type |-> "SHORT_OWNERSHIP", severity |-> "HIGH"], ret.risk_factors)

\* the address has no trailing lot number, or its district is not in the table
Unresolvable(a) ==
    /\ a.k = "addr"
    /\ \/ a.lot = <<>>
       \/ <<a.sido, a.rest>> \notin DOMAIN BjdTable

\* C15: when the address predict_risk converts has no trailing lot-number
\* suffix or its district prefix is not in the lookup table, the request fails
\* immediately with the cannot-resolve-address error: no ledger collection,
\* building lookup, price lookup, scoring or persistence is performed, and no
\* substitute parcel is taken from a lookup by the raw address text.
\* (Violated: _resolve_address hands back a dict without pnu, which is truthy,
\* and the request goes on to look the building up by its address text.)
C15_UnresolvableFailsFast ==
    (args.fn = "predict_risk" /\ Unresolvable(loc.lot_addr)) =>
        /\ pc = "done"
        /\ ret = ErrorResp(0, "cannot_resolve_address")
        /\ ~loc.ledger_fetched /\ ~loc.building_looked
        /\ loc.calls = <<>>
        /\ trace = <<>>
        /\ loc.pnu = NoPnu

\* ---------------------------------------------------------------------------
\* SpecPnu: convert_address_to_pnu on bounded addresses, then parse_pnu on the
\* key (address_service.py)
\* ---------------------------------------------------------------------------
MaxLotLen == 5   \* the last token of an address has at most this many characters

LotTokens == SeqsUpTo({"1", "0", "-", "a"}, MaxLotLen)

PnuAddresses ==
    {Address(sido, rest, lot) :
        sido \in {"seoul", "seoulteukbyeolsi"},
        rest \in {"jongnogu cheongundong", "nowhere"}, lot \in LotTokens}
    \cup {Address("", "", lot) : lot \in LotTokens}

NoConversion == [conv |-> NoPnuResult(""), parsed |-> NoParts]

InitPnu ==
    /\ now = Today
    /\ pc = "pnu_in"
    /\ args \in [address : PnuAddresses]
    /\ ret = NoConversion
    /\ rf_model = "None"
    /\ model_file = "absent"
    /\ PipelineIdle
    /\ AddressIdle

\* pnu, msg = convert_address_to_pnu(normalize_address(address))
ConvertAddressToPnu ==
    /\ pc = "pnu_in"
    /\ LET g == get_bjd_map(bjd_map, bjd_file)
       IN  /\ bjd_map' = g.bjd_map
           /\ ret' = [ret EXCEPT !.conv =
                         convert_address_to_pnu(normalize_address(args.address), g.map)]
    /\ pc' = "pnu_out"
    /\ UNCHANGED <<now, args, rf_model, model_file, db, loc, trace, bjd_file>>

\* parse_pnu(pnu) on a key that was produced
ParsePnu ==
    /\ pc = "pnu_out" /\ ret.conv.pnu # NoPnu
    /\ ret' = [ret EXCEPT !.parsed = parse_pnu(ret.conv.pnu)]
    /\ pc' = "pnu_parsed"
    /\ UNCHANGED <<now, args, rf_model, model_file, db, loc, trace, bjd_map, bjd_file>>

NextPnu == ConvertAddressToPnu \/ ParsePnu

SpecPnu == InitPnu /\ [][NextPnu]_vars

\* the main and sub lot numbers written in the address (sub 0 when none)
LotMain(a) == DigitsValue(Split(a.lot, "-")[1], 0)
LotSub(a) ==
    LET parts == Split(a.lot, "-")
    IN  IF Len(parts) >= 2 THEN DigitsValue(parts[2], 0) ELSE 0

\* C16: for every address convert_address_to_pnu resolves, the parcel key is
\* the 10-digit district code, "-", the land-category digit 3, "-", and the
\* main and sub lot numbers each as exactly 4 zero-padded digits (0000
\* without a sub lot), and parse_pnu on the key recovers the same main and sub
\* lot numbers.
\* (Violated: ":04d" pads but does not limit, so a lot number of five digits
\* makes the lot part longer than 8 and parse_pnu cuts it in the wrong place.)
C16_PnuFormatRoundTrip ==
    (pc \in {"pnu_out", "pnu_parsed"} /\ ret.conv.pnu # NoPnu) =>
        LET pnu == ret.conv.pnu
        IN  /\ Len(pnu) = 21
            /\ SubSeq(pnu, 1, 10) = BjdCode
            /\ SubSeq(pnu, 11, 13) = <<"-", "3", "-">>
            /\ IsDigits(SubSeq(pnu, 14, 21))
            /\ DigitsValue(SubSeq(pnu, 14, 17), 0) = LotMain(args.address)
            /\ DigitsValue(SubSeq(pnu, 18, 21), 0) = LotSub(args.address)
            /\ pc = "pnu_parsed" =>
                /\ ret.parsed.ok
                /\ Len(ret.parsed.bonbun) = 4 /\ Len(ret.parsed.bubun) = 4
                /\ DigitsValue(ret.parsed.bonbun, 0) = LotMain(args.address)
                /\ DigitsValue(ret.parsed.bubun, 0) = LotSub(args.address)

\* ---------------------------------------------------------------------------
\* SpecBjd: a process making convert_address_to_pnu calls one after another,
\* the reference file present, absent or unreadable and changing in between
\* ---------------------------------------------------------------------------
MaxCalls == 3   \* calls made by the process

BjdFiles == {"absent", "corrupt", "ok"}

CallAddresses ==
    {Address("seoulteukbyeolsi", "jongnogu cheongundong", <<"6", "5", "-", "1", "2", "4">>),
     Address("seoulteukbyeolsi", "jongnogu cheongundong", <<>>),
     Address("seoulteukbyeolsi", "nowhere", <<"1">>),
     NoneAddress}

InitBjd ==
    /\ now = Today
    /\ pc = "bjd_idle"
    /\ args = [address |-> NoneAddress]
    /\ ret = NoPnuResult("")
    /\ rf_model = "None"
    /\ model_file = "absent"
    /\ db = NoDb /\ loc = <<>> /\ trace = <<>>
    /\ bjd_map = NotLoaded
    /\ bjd_file \in BjdFiles

\* one call of convert_address_to_pnu, get_bjd_map included; trace keeps what
\* each call found and returned
ConvertCall ==
    /\ Len(trace) < MaxCalls
    /\ \E a \in CallAddresses :
        LET g == get_bjd_map(bjd_map, bjd_file)
            r == convert_address_to_pnu(a, g.map)
        IN  /\ args' = [address |-> a]
            /\ ret' = r
            /\ bjd_map' = g.bjd_map
            /\ trace' = Append(trace, [address |-> a, file |-> bjd_file,
                                       cached |-> bjd_map.loaded, read |-> g.read,
                                       raised |-> r.raised, pnu |-> r.pnu,
                                       msg |-> r.msg])
    /\ pc' = "bjd_called"
    /\ UNCHANGED <<now, rf_model, model_file, db, loc, bjd_file>>

\* the reference file is deployed, removed or damaged between two calls
BjdFileChanges ==
    /\ Len(trace) < MaxCalls
    /\ bjd_file' \in BjdFiles \ {bjd_file}
    /\ UNCHANGED <<now, pc, args, ret, rf_model, model_file, db, loc, trace, bjd_map>>

NextBjd == ConvertCall \/ BjdFileChanges

SpecBjd == InitBjd /\ [][NextBjd]_vars

\* the first access found the reference file missing or unreadable
BjdLoadFailed == trace # <<>> /\ trace[1].file \in {"absent", "corrupt"}

\* C17: if the district-code reference file is missing or fails to load,
\* get_bjd_map yields an empty table without raising, and from then on every
\* convert_address_to_pnu call, for every address, returns no parcel key
\* together with an error message and does not raise.
C17_LoadFailureYieldsEmptyTable ==
    BjdLoadFailed =>
        /\ bjd_map = Loaded(EmptyMap)
        /\ \A i \in 1..Len(trace) :
            /\ trace[i].raised = ""
            /\ trace[i].pnu = NoPnu
            /\ trace[i].msg = "no_bjd_data"

C17_Witness ==
    /\ Len(trace) = 3
    /\ trace[1].file = "corrupt" /\ trace[1].address = NoneAddress
    /\ trace[2].file = "ok" /\ trace[2].address = Address("seoulteukbyeolsi", "jongnogu cheongundong", <<"6", "5", "-", "1", "2", "4">>)
    /\ trace[2].pnu = NoPnu /\ trace[2].msg = "no_bjd_data"
    /\ trace[3].address = NoneAddress /\ trace[3].raised = ""

\* ---------------------------------------------------------------------------
\* SpecLoad: requests running in worker threads (asyncio.to_thread, main.py)
\* access the two lazy singletons, get_model (risk_calculator.py) and
\* get_bjd_map (address_service.py), unfolded into their reads and writes of
\* the module globals; neither takes a lock
\* ---------------------------------------------------------------------------
NumThreads == 2     \* worker threads
MaxAccesses == 2    \* accesses of a singleton made by each thread

Threads == 1..NumThreads
Loaders == {"get_model", "get_bjd_map"}

IdleThread == [pc |-> "idle", fn |-> "none", accesses |-> 0]

InitLoad ==
    /\ now = Today
    /\ pc = "threads"
    /\ args = [threads |-> NumThreads]
    /\ ret = NoResp
    /\ rf_model = "None"
    /\ model_file \in ModelFiles
    /\ db = NoDb
    /\ loc = [t \in Threads |-> IdleThread]
    /\ trace = <<>>
    /\ bjd_map = NotLoaded
    /\ bjd_file \in BjdFiles

At(t, l) == loc[t].pc = l
Step(t, l) == loc' = [loc EXCEPT ![t].pc = l]
Return(t) == loc' = [loc EXCEPT ![t].pc = "idle"]

\* a request reaches predict_with_model or convert_address_to_pnu
Access(t) ==
    /\ At(t, "idle") /\ loc[t].accesses < MaxAccesses
    /\ \E fn \in Loaders :
        loc' = [loc EXCEPT ![t] = [pc |-> "check", fn |-> fn,
                                   accesses |-> loc[t].accesses + 1]]
    /\ UNCHANGED <<now, pc, args, ret, rf_model, model_file, db, trace, bjd_map, bjd_file>>

\* "if _rf_model is not None: return _rf_model" / "if _bjd_map is not None"
CheckGlobal(t) ==
    /\ At(t, "check")
    /\ IF loc[t].fn = "get_model"
       THEN IF rf_model # "None" THEN Return(t) ELSE Step(t, "exists")
       ELSE IF bjd_map.loaded THEN Return(t) ELSE Step(t, "exists")
    /\ UNCHANGED <<now, pc, args, ret, rf_model, model_file, db, trace, bjd_map, bjd_file>>

\* "if not os.path.exists(path)": get_model returns None, get_bjd_map stores {}
CheckExists(t) ==
    /\ At(t, "exists")
    /\ IF loc[t].fn = "get_model"
       THEN /\ IF model_file = "absent" THEN Return(t) ELSE Step(t, "load")
            /\ bjd_map' = bjd_map
       ELSE IF bjd_file = "absent"
            THEN Return(t) /\ bjd_map' = Loaded(EmptyMap)
            ELSE Step(t, "load") /\ bjd_map' = bjd_map
    /\ UNCHANGED <<now, pc, args, ret, rf_model, model_file, db, trace, bjd_file>>

\* joblib.load(model_path) / pd.read_csv(csv_path): the file is read from
\* disk; when that raises get_model returns None and get_bjd_map stores {}
LoadFromDisk(t) ==
    /\ At(t, "load")
    /\ trace' = Append(trace, [fn |-> loc[t].fn, thread |-> t])
    /\ IF loc[t].fn = "get_model"
       THEN /\ IF model_file = "corrupt" THEN Return(t) ELSE Step(t, "store")
            /\ bjd_map' = bjd_map
       ELSE IF bjd_file = "corrupt"
            THEN Return(t) /\ bjd_map' = Loaded(EmptyMap)
            ELSE Step(t, "store") /\ bjd_map' = bjd_map
    /\ UNCHANGED <<now, pc, args, ret, rf_model, model_file, db, bjd_file>>

\* the assignment to the module global
StoreGlobal(t) ==
    /\ At(t, "store")
    /\ IF loc[t].fn = "get_model"
       THEN rf_model' = "loaded" /\ bjd_map' = bjd_map
       ELSE rf_model' = rf_model /\ bjd_map' = Loaded(BjdTable)
    /\ Return(t)
    /\ UNCHANGED <<now, pc, args, ret, model_file, db, trace, bjd_file>>

NextLoad ==
    \E t \in Threads :
        \/ Access(t)
        \/ CheckGlobal(t)
        \/ CheckExists(t)
        \/ LoadFromDisk(t)
        \/ StoreGlobal(t)

SpecLoad == InitLoad /\ [][NextLoad]_vars

LoadsOf(fn) == Cardinality({i \in 1..Len(trace) : trace[i].fn = fn})

\* C18: across every interleaving of requests running concurrently in one
\* process, the district lookup table and the classifier are each loaded from
\* disk at most once: no schedule of concurrent first accesses, and no
\* sequence of later accesses, performs a second load.
\* (Violated: neither loader takes a lock, so two threads that both find the
\* global unset both load; and get_model does not remember a load that
\* raised, so every later access reads the file again.)
C18_LoadedAtMostOnce ==
    \A fn \in Loaders : LoadsOf(fn) <= 1

\* ---------------------------------------------------------------------------
\* result_service.py: save_prediction_result, unfolded into the statements of
\* its transaction.  Rows of risk_analysis_result (core/database.py) carry an
\* address_key under a plain INDEX: the table declares no unique key.
\* ---------------------------------------------------------------------------
UNKNOWN == <<"U", "N", "K", "N", "O", "W", "N">>

create_address_key(pnu) ==
    IF pnu = <<>> \/ (\A i \in 1..Len(pnu) : pnu[i] # "-") THEN UNKNOWN
    ELSE LET parts == Split(pnu, "-")
         IN  IF Len(parts) < 3 THEN UNKNOWN
             ELSE LET sgg_bjd == parts[1]
                      bon_bu == parts[3]
                  IN  Slice(sgg_bjd, 0, 5) \o <<"-">> \o Slice(sgg_bjd, 5, Len(sgg_bjd))
                      \o <<"-">> \o Slice(bon_bu, 0, 4) \o <<"-">> \o Slice(bon_bu, 4, Len(bon_bu))

MaxSaves == 3       \* calls of save_prediction_result in one behaviour

OtherPnu == MakePnu(BjdCode, 7, 0)
SavePnus == {HyphenPnu, OtherPnu, RawPnu, NoPnu}
AddressKeys == {create_address_key(p) : p \in SavePnus}

\* transaction isolation of the MySQL session: the engine is created without
\* an isolation_level, so the server's setting applies
Isolations == {"REPEATABLE-READ", "READ-COMMITTED"}

IdleSaver == [pc |-> "idle", address_key |-> <<>>, call |-> 0, deleted |-> {}, inserted |-> {}, gap |-> FALSE]

InitSave ==
    /\ now = Today
    /\ pc = "threads"
    /\ args = [calls |-> 0]
    /\ ret = NoResp
    /\ rf_model = "None"
    /\ model_file = "ok"
    /\ db \in {[isolation |-> i, rows |-> {}] : i \in Isolations}
    /\ loc = [t \in Threads |-> IdleSaver]
    /\ trace = <<>>
    /\ AddressIdle

RowsOf(rows, key) == {r \in rows : r.address_key = key}

\* another open transaction holds the lock of a row with this key: one it
\* deleted, or one it inserted and has not committed
RecordLocked(t, key) ==
    \E u \in Threads \ {t} : RowsOf(loc[u].deleted \cup loc[u].inserted, key) # {}

\* another open transaction holds a gap lock on the index range of this key
GapLocked(t, key) ==
    \E u \in Threads \ {t} : loc[u].gap /\ loc[u].address_key = key

\* lines 45-72: the key and the parameters are computed before the try
SaveCall(t) ==
    /\ At(t, "idle") /\ args.calls < MaxSaves
    /\ \E pnu \in SavePnus :
        loc' = [loc EXCEPT ![t] = [IdleSaver EXCEPT !.pc = "begin",
                                       !.address_key = create_address_key(pnu),
                                       !.call = args.calls + 1]]
    /\ args' = [calls |-> args.calls + 1]
    /\ UNCHANGED <<now, pc, ret, rf_model, model_file, db, trace, bjd_map, bjd_file>>

\* "with engine.connect() as conn: with conn.begin():"
Connect(t) ==
    /\ At(t, "begin")
    /\ Step(t, "delete")
    /\ UNCHANGED <<now, pc, args, ret, rf_model, model_file, db, trace, bjd_map, bjd_file>>

\* conn.execute(sql_delete): a locking scan of the rows of the key; it waits
\* for a row another transaction has locked, locks the rows it deletes and,
\* under REPEATABLE READ, the gap of the key in idx_risk_address as well
ExecDelete(t) ==
    /\ At(t, "delete")
    /\ ~RecordLocked(t, loc[t].address_key)
    /\ loc' = [loc EXCEPT ![t].pc = "insert",
                          ![t].deleted = RowsOf(db.rows, loc[t].address_key),
                          ![t].gap = (db.isolation = "REPEATABLE-READ")]
    /\ UNCHANGED <<now, pc, args, ret, rf_model, model_file, db, trace, bjd_map, bjd_file>>

\* conn.execute(sql_insert): waits while another transaction holds a gap lock
\* on the key; nothing else stands in its way, the table has no unique key
ExecInsert(t) ==
    /\ At(t, "insert")
    /\ ~GapLocked(t, loc[t].address_key)
    /\ loc' = [loc EXCEPT ![t].pc = "commit",
                          ![t].inserted = {[address_key |-> loc[t].address_key, by |-> loc[t].call]}]
    /\ UNCHANGED <<now, pc, args, ret, rf_model, model_file, db, trace, bjd_map, bjd_file>>

\* leaving "with conn.begin()" commits; "return True"
Commit(t) ==
    /\ At(t, "commit")
    /\ db' = [db EXCEPT !.rows = (db.rows \ loc[t].deleted) \cup loc[t].inserted]
    /\ trace' = Append(trace, [call |-> loc[t].call, address_key |-> loc[t].address_key, ok |-> TRUE])
    /\ loc' = [loc EXCEPT ![t] = IdleSaver]
    /\ UNCHANGED <<now, pc, args, ret, rf_model, model_file, bjd_map, bjd_file>>

\* "except Exception: return False": the connection or a statement raised
\* (server gone, value out of range, lock wait timeout, deadlock victim) and
\* the transaction was rolled back
DbError(t) ==
    /\ loc[t].pc \in {"begin", "delete", "insert", "commit"}
    /\ trace' = Append(trace, [call |-> loc[t].call, address_key |-> loc[t].address_key, ok |-> FALSE])
    /\ loc' = [loc EXCEPT ![t] = IdleSaver]
    /\ UNCHANGED <<now, pc, args, ret, rf_model, model_file, db, bjd_map, bjd_file>>

NextSave ==
    \E t \in Threads :
        \/ SaveCall(t)
        \/ Connect(t)
        \/ ExecDelete(t)
        \/ ExecInsert(t)
        \/ Commit(t)
        \/ DbError(t)

SpecSave == InitSave /\ [][NextSave]_vars

\* the successful saves of a key, in commit order
SavedCalls(key) == SelectSeq(trace, LAMBDA e : e.ok /\ e.address_key = key)

MonthsBack == 2       \* iterations of "for i in range(10)" that are followed
MaxCollects == 1      \* calls of fetch_real_price_from_api made by each thread
MaxDaysLater == 1     \* midnights passed in one behaviour

\* target_date.strftime('%Y%m') as the number YYYYMM
YearMonth(day) ==
    LET z == day + 719468
        era == z \div 146097
        doe == z - era * 146097
        yoe == (doe - doe \div 1460 + doe \div 36524 - doe \div 146096) \div 365
        doy == doe - (365 * yoe + yoe \div 4 - yoe \div 100)
        mp == (5 * doy + 2) \div 153
        m == IF mp < 10 THEN mp + 3 ELSE mp - 9
        y == yoe + era * 400 + (IF m <= 2 THEN 1 ELSE 0)
    IN  y * 100 + m

\* "target_date = datetime.now() - timedelta(days=30 * i)"
deal_ymd(now_, i) == YearMonth(now_ - 30 * i)

Sigungus == {parse_pnu(HyphenPnu).sigungu_code}
DataTypes == {"TRADE", "RENT"}
LogKey(sgg, ymd, dtype) == [sigungu_code |-> sgg, deal_ymd |-> ymd, data_type |-> dtype]
LogKeys ==
    {LogKey(s, deal_ymd(d, i), ty) :
        s \in Sigungus, d \in Today..(Today + MaxDaysLater), i \in 0..(MonthsBack - 1), ty \in DataTypes}

\* api_price_log: DATE(collected_at) of the row of each key, 0 without a row
EmptyLog == [k \in LogKeys |-> 0]

\* check_price_log: "DATE(collected_at) = CURDATE()"; a connection failure is
\* raised, any other failure of the query is answered False
check_price_log(log, key, today, available, q) ==
    IF ~available \/ q = "connect" THEN Raised(DbErr)
    ELSE IF q = "other" THEN Returned(FALSE)
    ELSE Returned(log[key] = today)

\* update_price_log: INSERT ... ON DUPLICATE KEY UPDATE collected_at = NOW();
\* skipped when the database is down, and a failure is only logged
update_price_log(log, key, today, available, q) ==
    IF ~available \/ q # "none" THEN log
    ELSE [log EXCEPT ![key] = today]

IdleCollector == [pc |-> "idle", sigungu_code |-> <<>>, i |-> 0, deal_ymd |-> 0, data_type |-> "TRADE", calls |-> 0]

InitFetch ==
    /\ now = Today
    /\ pc = "threads"
    /\ args = [threads |-> NumThreads]
    /\ ret = NoResp
    /\ rf_model = "None"
    /\ model_file = "ok"
    /\ db \in {[available |-> a, log |-> EmptyLog] : a \in BOOLEAN}
    /\ loc = [t \in Threads |-> IdleCollector]
    /\ trace = EmptyBag
    /\ AddressIdle

KeyOf(t) == LogKey(loc[t].sigungu_code, loc[t].deal_ymd, loc[t].data_type)

\* the call is left: by return True, return False or a raised exception
Leave(l) == [l EXCEPT !.pc = "idle"]

\* the next check of the loop: RENT after TRADE, then the next month, then
\* "return True"
Advance(l) ==
    IF l.data_type = "TRADE" THEN [l EXCEPT !.pc = "check", !.data_type = "RENT"]
    ELSE IF l.i + 1 < MonthsBack
         THEN [l EXCEPT !.pc = "check", !.data_type = "TRADE", !.i = l.i + 1,
                        !.deal_ymd = deal_ymd(now, l.i + 1)]
         ELSE Leave(l)

\* lines 142-164: raises when the database is down, returns False when the
\* collectors cannot be imported, otherwise enters the loop
CallFetch(t) ==
    /\ At(t, "idle") /\ loc[t].calls < MaxCollects
    /\ \E sgg \in Sigungus, imported \in BOOLEAN :
        LET l == [loc[t] EXCEPT !.calls = @ + 1, !.sigungu_code = sgg]
        IN  loc' = [loc EXCEPT ![t] =
                        IF ~db.available \/ ~imported THEN Leave(l)
                        ELSE [l EXCEPT !.pc = "check", !.i = 0, !.data_type = "TRADE",
                                       !.deal_ymd = deal_ymd(now, 0)]]
    /\ UNCHANGED <<now, pc, args, ret, rf_model, model_file, db, trace, bjd_map, bjd_file>>

\* "if not check_price_log(sigungu_code, deal_ymd, ...)"
CheckPriceLog(t) ==
    /\ At(t, "check")
    /\ \E q \in QErrs :
        LET r == check_price_log(db.log, KeyOf(t), now, db.available, q)
        IN  loc' = [loc EXCEPT ![t] =
                        IF r.raised # "" THEN Leave(loc[t])
                        ELSE IF r.f THEN Advance(loc[t])
                        ELSE [loc[t] EXCEPT !.pc = "fetch"]]
    /\ UNCHANGED <<now, pc, args, ret, rf_model, model_file, db, trace, bjd_map, bjd_file>>

\* fetch_trade_data_and_save / fetch_rent_data_and_save: the external fetch;
\* when it raises, the error is logged and the log is not updated
ExternalFetch(t) ==
    /\ At(t, "fetch")
    /\ trace' = trace (+) SetToBag({[key |-> KeyOf(t), day |-> now,
                                     logged |-> db.log[KeyOf(t)] = now]})
    /\ \E raised \in BOOLEAN :
        loc' = [loc EXCEPT ![t] = IF raised THEN Advance(loc[t])
                                  ELSE [loc[t] EXCEPT !.pc = "update"]]
    /\ UNCHANGED <<now, pc, args, ret, rf_model, model_file, db, bjd_map, bjd_file>>

\* "update_price_log(sigungu_code, deal_ymd, ...)"
UpdatePriceLog(t) ==
    /\ At(t, "update")
    /\ \E q \in QErrs :
        db' = [db EXCEPT !.log = update_price_log(db.log, KeyOf(t), now, db.available, q)]
    /\ loc' = [loc EXCEPT ![t] = Advance(loc[t])]
    /\ UNCHANGED <<now, pc, args, ret, rf_model, model_file, trace, bjd_map, bjd_file>>

\* the date changes
Midnight ==
    /\ now < Today + MaxDaysLater
    /\ now' = now + 1
    /\ UNCHANGED <<pc, args, ret, rf_model, model_file, db, loc, trace, bjd_map, bjd_file>>

NextFetch ==
    \/ \E t \in Threads :
        \/ CallFetch(t)
        \/ CheckPriceLog(t)
        \/ ExternalFetch(t)
        \/ UpdatePriceLog(t)
    \/ Midnight

SpecFetch == InitFetch /\ [][NextFetch]_vars

\* trace is the bag of external fetches made
FetchesOf(key, day) ==
    CopiesIn([key |-> key, day |-> day, logged |-> FALSE], trace)
    + CopiesIn([key |-> key, day |-> day, logged |-> TRUE], trace)

\* C20: the on-demand collection is idempotent within a day: once the log
\* holds an entry of a (district, year-month, data type) key dated today, no
\* call of fetch_real_price_from_api, sequential or concurrent, triggers the
\* external fetch of that key again that day, so every key is fetched at most
\* once per day.
\* (Violated: the check and the fetch are separate steps under no lock, so two
\* calls that both find no entry both fetch; and check_price_log answers
\* False when its query fails, entry or not.)
C20_FetchedAtMostOncePerDay ==
    /\ \A e \in BagToSet(trace) : ~e.logged
    /\ \A k \in LogKeys, d \in Today..(Today + MaxDaysLater) : FetchesOf(k, d) <= 1

\* ---------------------------------------------------------------------------
\* The row handed to the classifier: predict_with_model (risk_calculator.py)
\* and convert_to_model_input (feature_service.py).  A feature dict is the
\* sequence of its <<key, value>> items in insertion order, a one-row
\* DataFrame the sequence of its <<column, value>> cells.
\* ---------------------------------------------------------------------------
TRAIN_FEATURES ==
    <<"jeonse_ratio", "hug_risk_ratio", "total_risk_ratio", "estimated_loan_ratio",
      "building_age", "is_illegal", "parking_per_household", "is_micro_complex",
      "is_trust_owner", "short_term_weight",
      "type_APT", "type_OFFICETEL", "type_VILLA", "type_ETC">>

HasColumn(df, col) == \E i \in 1..Len(df) : df[i][1] = col
CellOf(df, col) == df[CHOOSE i \in 1..Len(df) : df[i][1] = col][2]

\* df.reindex(columns=cols, fill_value=fill)
Reindex(df, cols, fill) ==
    [i \in 1..Len(cols) |-> <<cols[i], IF HasColumn(df, cols[i]) THEN CellOf(df, cols[i]) ELSE fill>>]

\* a loaded classifier: the columns it was fitted on, and whether it carries
\* them as feature_names_in_ (it does not when fitted on a bare array)
Classifier(named, cols) == [loaded |-> TRUE, named |-> named, fit_columns |-> cols]
NoClassifier == [loaded |-> FALSE, named |-> FALSE, fit_columns |-> <<>>]

\* predict_with_model, lines 196-204: the frame passed to predict_proba
df_input(features, model) ==
    IF model.named THEN Reindex(features, model.fit_columns, 0)
    ELSE features

\* convert_to_model_input: "df[col] = 0" for each missing column, then
\* "df[TRAIN_FEATURES]"
convert_to_model_input(features) ==
    LET missing == SelectSeq(TRAIN_FEATURES, LAMBDA c : ~HasColumn(features, c))
        df == features \o [i \in 1..Len(missing) |-> <<missing[i], 0>>]
    IN  [i \in 1..Len(TRAIN_FEATURES) |-> <<TRAIN_FEATURES[i], CellOf(df, TRAIN_FEATURES[i])>>]

MaxFeatureValue == 2    \* feature values are 1..MaxFeatureValue

FeatureKeys == {"jeonse_ratio", "short_term_weight", "real_debt", "type_APT"}

\* feature dicts: every order of every subset of the keys
FeatureItems ==
    {s \in UNION {[1..n -> FeatureKeys \X (1..MaxFeatureValue)] : n \in 0..Cardinality(FeatureKeys)} :
        \A i, j \in 1..Len(s) : i # j => s[i][1] # s[j][1]}

TypeFirst == SubSeq(TRAIN_FEATURES, 11, 14) \o SubSeq(TRAIN_FEATURES, 1, 10)
Classifiers ==
    {NoClassifier, Classifier(TRUE, TRAIN_FEATURES), Classifier(TRUE, TypeFirst),
     Classifier(FALSE, TRAIN_FEATURES)}

NoInput == [fn |-> "none", invoked |-> FALSE, row |-> <<>>]

InitInput ==
    /\ now = Today
    /\ pc = "input_in"
    /\ args \in [features : FeatureItems, model : Classifiers]
    /\ ret = NoInput
    /\ rf_model = "None"
    /\ model_file = "ok"
    /\ PipelineIdle
    /\ AddressIdle

\* predict_with_model: without a model the rule-based fallback answers and
\* no classifier is invoked
PredictWithModel ==
    /\ pc = "input_in"
    /\ ret' = IF args.model.loaded
              THEN [fn |-> "predict_with_model", invoked |-> TRUE,
                    row |-> df_input(args.features, args.model)]
              ELSE [fn |-> "predict_with_model", invoked |-> FALSE, row |-> <<>>]
    /\ pc' = "input_out"
    /\ UNCHANGED <<now, args, rf_model, model_file, db, loc, trace, bjd_map, bjd_file>>

\* risk_pipeline.py: "rf_model.predict_proba(convert_to_model_input(feats))"
ConvertToModelInput ==
    /\ pc = "input_in"
    /\ args.model.loaded
    /\ ret' = [fn |-> "convert_to_model_input", invoked |-> TRUE,
               row |-> convert_to_model_input(args.features)]
    /\ pc' = "input_out"
    /\ UNCHANGED <<now, args, rf_model, model_file, db, loc, trace, bjd_map, bjd_file>>

NextInput == PredictWithModel \/ ConvertToModelInput

SpecInput == InitInput /\ [][NextInput]_vars

\* the columns in the declared order, each value looked up by name
RowByName(features, declared) ==
    [i \in 1..Len(declared) |->
        <<declared[i],
          IF \E k \in 1..Len(features) : features[k][1] = declared[i]
          THEN features[CHOOSE k \in 1..Len(features) : features[k][1] = declared[i]][2]
          ELSE 0>>]

DeclaredColumns ==
    IF ret.fn = "convert_to_model_input" THEN TRAIN_FEATURES ELSE args.model.fit_columns

\* C21: whenever the classifier is invoked, its input row has exactly the
\* columns the model declares, in the declared order, each value taken from
\* the feature record by name (0 when the record lacks the name), whatever the
\* key order of the record and whatever extra keys (real_debt) it carries.
\* (Violated: a classifier without feature_names_in_ is handed the frame as
\* built from the dict.)
C21_ClassifierInputReindexed ==
    (pc = "input_out" /\ ret.invoked) => ret.row = RowByName(args.features, DeclaredColumns)

\* ---------------------------------------------------------------------------
\* SpecTwice: the same request is computed twice, the clock moving on in
\* between.  One run is extract (predict_risk_with_ocr) or the building_info
\* row (predict_risk), then calculate_risk_features, the score without a
\* classifier file, determine_risk_level and analyze_risk_factors.
\* ---------------------------------------------------------------------------
MaxClockDays == 2       \* days that pass between the two runs

TwiceDates == {NoDate, Day(Today - 89), Day(Today - 400), Day(Today - 729), Day(Today - 1000)}

TwiceInputs ==
    {[fn |-> "predict_risk_with_ocr", deposit |-> dep, market |-> 10, building_info |-> <<>>,
      ocr_data |-> JDict([registry |-> JDict([basic_info |-> JDict([ownership_date |-> JStr(od)])]),
                          ledger |-> JDict([building_status |-> JDict([usage_approval_date |-> JStr(apr)])])])] :
        dep \in {5, 8, 10}, od \in TwiceDates, apr \in {NoDate, Day(Today - 5 * 365)}}
    \cup
    {[fn |-> "predict_risk", deposit |-> dep, market |-> 10, ocr_data |-> JNull,
      building_info |-> BuildingOf({"apateu"}, {}, od, apr, 0, 0, "N")] :
        dep \in {5, 8, 10}, od \in TwiceDates, apr \in {NoDate, Day(Today - 5 * 365)}}

NoRun == [raised |-> "", features |-> <<>>, prob |-> RZero, level |-> "none", risk_factors |-> <<>>]

\* calculate -> score -> classify -> analyze at time now_
RunOnce(a, now_) ==
    LET o == IF a.fn = "predict_risk_with_ocr" THEN extract_ocr_features(a.ocr_data, now_)
             ELSE Returned(<<>>)
    IN  IF o.raised # "" THEN [NoRun EXCEPT !.raised = o.raised]
        ELSE LET f == calculate_risk_features(a.deposit, RInt(a.market), 0,
                                              a.building_info, o.f, now_)
                 prob == predict_with_model(f, "None", [raises |-> FALSE, prob |-> RZero]).prob
             IN  [raised |-> "", features |-> f, prob |-> prob,
                  level |-> determine_risk_level(prob),
                  risk_factors |-> analyze_risk_factors(f, TRUE)]

InitTwice ==
    /\ now = Today
    /\ pc = "first"
    /\ args \in TwiceInputs
    /\ ret = [first |-> NoRun, second |-> NoRun]
    /\ rf_model = "None"
    /\ model_file = "absent"
    /\ PipelineIdle
    /\ AddressIdle

RunFirst ==
    /\ pc = "first"
    /\ ret' = [ret EXCEPT !.first = RunOnce(args, now)]
    /\ pc' = "between"
    /\ UNCHANGED <<now, args, rf_model, model_file, db, loc, trace, bjd_map, bjd_file>>

\* datetime.now() moves on
ClockTick ==
    /\ pc = "between"
    /\ now < Today + MaxClockDays
    /\ now' = now + 1
    /\ UNCHANGED <<pc, args, ret, rf_model, model_file, db, loc, trace, bjd_map, bjd_file>>

SecondRun ==
    /\ pc = "between"
    /\ ret' = [ret EXCEPT !.second = RunOnce(args, now)]
    /\ pc' = "second"
    /\ UNCHANGED <<now, args, rf_model, model_file, db, loc, trace, bjd_map, bjd_file>>

NextTwice == RunFirst \/ ClockTick \/ SecondRun

SpecTwice == InitTwice /\ [][NextTwice]_vars

\* C22: given identical inputs, running calculate, score, classify and analyze
\* twice yields identical output: the result depends on the inputs only, not
\* on the wall-clock time of the run.
\* (Violated: building_age and the short-term ownership weight are computed
\* from datetime.now().)
C22_TwiceIdentical ==
    pc = "second" => ret.second = ret.first

\* ---------------------------------------------------------------------------
\* main.py: POST /predict, GET /predict/{task_id} and the background task
\* _run_prediction_task, with the task store and the result cache of
\* core/redis_config.py.  An uploaded file is its content type and its size
\* in MB; "trace" is the sequence of set_task_status calls made.
\* ---------------------------------------------------------------------------
ALLOWED_IMAGE_TYPES == {"image/png", "image/jpeg", "image/jpg"}
ALLOWED_PDF_TYPES == {"application/pdf"}

Upload(content_type, size_mb) == [content_type |-> content_type, size_mb |-> size_mb]

FieldError(field, idx) == [field |-> field, idx |-> idx]

\* validate_file_type, then validate_file_size: the first one that raises
\* HTTPException makes the one error of the file
FileRejected(file, allowed_types, max_size_mb) ==
    file.content_type \notin allowed_types \/ file.size_mb > max_size_mb

FileErrors(field, files, allowed_types, max_size_mb) ==
    LET bad == SelectSeq([i \in 1..Len(files) |-> i],
                         LAMBDA i : FileRejected(files[i], allowed_types, max_size_mb))
    IN  [k \in 1..Len(bad) |-> FieldError(field, bad[k] - 1)]

\* predict_risk_endpoint 1: the errors list (idx -1: the field as a whole)
validation_errors_CountsInclusive(ledger_files, registry_files) ==
    (IF Len(ledger_files) = 0 THEN <<FieldError("ledger_files", 0 - 1)>> ELSE <<>>)
    \o (IF Len(registry_files) = 0 THEN <<FieldError("registry_files", 0 - 1)>> ELSE <<>>)
    \o (IF Len(ledger_files) >= 5 THEN <<FieldError("ledger_files", 0 - 1)>> ELSE <<>>)
    \o (IF Len(registry_files) >= 3 THEN <<FieldError("registry_files", 0 - 1)>> ELSE <<>>)
    \o FileErrors("ledger_files", ledger_files, ALLOWED_IMAGE_TYPES, 10)
    \o FileErrors("registry_files", registry_files, ALLOWED_PDF_TYPES, 20)

validation_errors(ledger_files, registry_files) ==
    (IF Len(ledger_files) = 0 THEN <<FieldError("ledger_files", 0 - 1)>> ELSE <<>>)
    \o (IF Len(registry_files) = 0 THEN <<FieldError("registry_files", 0 - 1)>> ELSE <<>>)
    \o (IF Len(ledger_files) > 5 THEN <<FieldError("ledger_files", 0 - 1)>> ELSE <<>>)
    \o (IF Len(registry_files) > 3 THEN <<FieldError("registry_files", 0 - 1)>> ELSE <<>>)
    \o FileErrors("ledger_files", ledger_files, ALLOWED_IMAGE_TYPES, 10)
    \o FileErrors("registry_files", registry_files, ALLOWED_PDF_TYPES, 20)

\* The store: what Redis holds.  cache: the cached response of the request
\* key (code 0: none); task: the record of the task (status "none": no key).
NoTask == [status |-> "none", progress |-> 0, error |-> FALSE, result |-> 0]
TaskData(status, progress, result, error) == [status |-> status, progress |-> progress, error |-> error, result |-> result]

\* get_cached_result: None (0) when Redis cannot be reached or the read fails
get_cached_result(cache, redis_ok) == IF redis_ok THEN cache ELSE 0

\* set_task_status: the record replaces the stored one; without Redis the
\* call returns False and nothing is stored
set_task_status(stored, data, redis_ok) == IF redis_ok THEN data ELSE stored

\* the call as the caller makes it, default progress 0
StatusCall(status, progress, result, error) == TaskData(status, progress, result, error)

\* get_task_status: None without Redis, without the key or on a failed read
get_task_status(stored, redis_ok) == IF redis_ok THEN stored ELSE NoTask

\* get_prediction_status: what GET /predict/{task_id} answers
NoReport == [code |-> 0, status |-> "none", progress |-> 0, result |-> 0, error |-> FALSE]
get_prediction_status(task_data) ==
    IF task_data.status = "none" THEN [NoReport EXCEPT !.code = 404]
    ELSE IF task_data.status = "COMPLETED"
         THEN [code |-> 200, status |-> "COMPLETED", progress |-> 100,
               result |-> task_data.result, error |-> FALSE]
    ELSE IF task_data.status = "FAILED"
         THEN [code |-> 200, status |-> "FAILED", progress |-> task_data.progress,
               result |-> 0, error |-> TRUE]
    ELSE [code |-> 200, status |-> task_data.status, progress |-> task_data.progress,
          result |-> 0, error |-> FALSE]

MaxLedgerFiles == 6      \* ledger images uploaded with one request
MaxRegistryFiles == 4    \* registry PDFs uploaded with one request

Png == Upload("image/png", 1)
Pdf == Upload("application/pdf", 1)

LedgerUploads ==
    {[i \in 1..n |-> Png] : n \in 0..MaxLedgerFiles}
    \cup {<<Upload("image/jpeg", 10)>>, <<Upload("image/png", 11)>>, <<Pdf>>,
          <<Png, Upload("text/plain", 1), Upload("image/jpg", 12)>>}

RegistryUploads ==
    {[i \in 1..n |-> Pdf] : n \in 0..MaxRegistryFiles}
    \cup {<<Upload("application/pdf", 20)>>, <<Upload("application/pdf", 21)>>, <<Png, Pdf>>}

NoPost == [code |-> 0, errors |-> <<>>, status |-> "none", task_id |-> 0]
TaskLocals == [cached |-> 0, db_error |-> FALSE, ledger |-> "none", registry |-> "none", result |-> 0, report |-> NoReport]

InitTask ==
    /\ now = Today
    /\ pc = "post"
    /\ args \in [ledger_files : LedgerUploads, registry_files : RegistryUploads,
                 skip_cache : BOOLEAN]
    /\ ret = NoPost
    /\ rf_model = "None"
    /\ model_file = "ok"
    /\ db \in [available : BOOLEAN, cache : {0, 200}, task : {NoTask},
               temp_files : {FALSE}, tasks : {0}]
    /\ loc = TaskLocals
    /\ trace = <<>>
    /\ AddressIdle

\* one set_task_status call: it is made, and stored when Redis answers
Write(stored, call, redis_ok) == set_task_status(stored, call, redis_ok)

\* predict_risk_endpoint: validation, cache lookup, task creation
PostPredict ==
    /\ pc = "post"
    /\ LET errors == validation_errors(args.ledger_files, args.registry_files)
       IN  IF errors # <<>>
           THEN /\ ret' = [NoPost EXCEPT !.code = 400, !.errors = errors]
                /\ pc' = "answered"
                /\ UNCHANGED <<db, loc, trace>>
           ELSE \E read_ok, write_ok \in BOOLEAN :
                LET cached == IF args.skip_cache THEN 0
                              ELSE get_cached_result(db.cache, read_ok)
                    pending == StatusCall("PENDING", 0, 0, FALSE)
                IN  IF cached # 0
                    THEN /\ ret' = [NoPost EXCEPT !.code = 200]
                         /\ pc' = "answered"
                         /\ loc' = [loc EXCEPT !.cached = cached]
                         /\ UNCHANGED <<db, trace>>
                    ELSE /\ ret' = [code |-> 202, errors |-> <<>>, status |-> "PENDING",
                                    task_id |-> db.tasks + 1]
                         /\ pc' = "queued"
                         /\ db' = [db EXCEPT !.task = Write(NoTask, pending, write_ok),
                                             !.temp_files = TRUE, !.tasks = @ + 1]
                         /\ trace' = <<pending>>
                         /\ loc' = [loc EXCEPT !.cached = cached]
    /\ UNCHANGED <<now, args, rf_model, model_file, bjd_map, bjd_file>>

\* the task ends: "finally: _cleanup_temp_files(...)"
Ended(task) == /\ pc' = "ended"
               /\ db' = [db EXCEPT !.task = task, !.temp_files = FALSE]

\* the outer handlers: "set_task_status(task_id, FAILED, error=...)", the
\* progress left at its default
FailedCall == StatusCall("FAILED", 0, 0, TRUE)

\* step 1: PROCESSING 10, then the database check
TaskStart ==
    /\ pc = "queued"
    /\ \E ok1, ok2, reconnected \in BOOLEAN :
        LET c1 == StatusCall("PROCESSING", 10, 0, FALSE)
            t1 == Write(db.task, c1, ok1)
        IN  IF ~db.available /\ ~reconnected
            THEN /\ trace' = trace \o <<c1, FailedCall>>
                 /\ Ended(Write(t1, FailedCall, ok2))
                 /\ loc' = [loc EXCEPT !.db_error = TRUE]
            ELSE /\ trace' = Append(trace, c1)
                 /\ pc' = "ledger"
                 /\ db' = [db EXCEPT !.task = t1, !.available = TRUE]
                 /\ loc' = loc
    /\ UNCHANGED <<now, args, ret, rf_model, model_file, bjd_map, bjd_file>>

\* step 2: PROCESSING 20, extract_building_ledger, PROCESSING 40.  The
\* extractor answers the data, or a dict {"error": ...} when it failed; the
\* call raising is answered FAILED 25
LedgerOcr ==
    /\ pc = "ledger"
    /\ \E ok1, ok2 \in BOOLEAN, o \in {"data", "error", "raises"} :
        LET c1 == StatusCall("PROCESSING", 20, 0, FALSE)
            c2 == IF o = "raises" THEN StatusCall("FAILED", 25, 0, TRUE)
                  ELSE StatusCall("PROCESSING", 40, 0, FALSE)
            t == Write(Write(db.task, c1, ok1), c2, ok2)
        IN  /\ trace' = trace \o <<c1, c2>>
            /\ loc' = [loc EXCEPT !.ledger = o]
            /\ IF o = "raises" THEN Ended(t)
               ELSE pc' = "registry" /\ db' = [db EXCEPT !.task = t]
    /\ UNCHANGED <<now, args, ret, rf_model, model_file, bjd_map, bjd_file>>

\* step 3: extract_real_estate_data, PROCESSING 60.  The extractor answers
\* the data, or {} when it failed; the call raising is answered FAILED 45
RegistryOcr ==
    /\ pc = "registry"
    /\ \E ok1 \in BOOLEAN, o \in {"data", "empty", "raises"} :
        LET c1 == IF o = "raises" THEN StatusCall("FAILED", 45, 0, TRUE)
                  ELSE StatusCall("PROCESSING", 60, 0, FALSE)
            t == Write(db.task, c1, ok1)
        IN  /\ trace' = Append(trace, c1)
            /\ loc' = [loc EXCEPT !.registry = o]
            /\ IF o = "raises" THEN Ended(t)
               ELSE pc' = "match" /\ db' = [db EXCEPT !.task = t]
    /\ UNCHANGED <<now, args, ret, rf_model, model_file, bjd_map, bjd_file>>

\* step 4: "if ledger_data and registry_data": validate_document_match; a
\* mismatch is answered FAILED 60 with the 422 response as result
MatchDocuments ==
    /\ pc = "match"
    /\ \E ok1 \in BOOLEAN, is_valid \in BOOLEAN :
        LET checked == loc.registry # "empty"
            c1 == IF checked /\ ~is_valid THEN StatusCall("FAILED", 60, 422, TRUE)
                  ELSE StatusCall("PROCESSING", 75, 0, FALSE)
            t == Write(db.task, c1, ok1)
        IN  /\ trace' = Append(trace, c1)
            /\ IF checked /\ ~is_valid THEN Ended(t)
               ELSE pc' = "predict" /\ db' = [db EXCEPT !.task = t]
    /\ UNCHANGED <<now, args, ret, rf_model, model_file, loc, bjd_map, bjd_file>>

\* what predict_risk_with_ocr does: it answers 200, or an error response
\* (422 without pricing data, 500 after an internal error), or raises
\* DatabaseConnectionError
PredictOutcomes == {200, 422, 500, 0}

\* steps 5 and 6 and the handler of DatabaseConnectionError: the status
\* calls that follow predict_risk_with_ocr.  A raised error is answered
\* FAILED; every response, whatever its code, PROCESSING 95 and COMPLETED 100
FinalCalls_ErrorCompleted(code) ==
    <<StatusCall("PROCESSING", 95, 0, FALSE), StatusCall("COMPLETED", 100, code, FALSE)>>

FinalCalls(code) ==
    IF code = 0 THEN <<FailedCall>>
    ELSE <<StatusCall("PROCESSING", 95, 0, FALSE), StatusCall("COMPLETED", 100, code, FALSE)>>

\* steps 5 and 6: predict_risk_with_ocr, the status calls, the 200 result
\* cached in between, and the cleanup
PredictAndComplete ==
    /\ pc = "predict"
    /\ \E ok1, ok2, ok3 \in BOOLEAN, code \in PredictOutcomes :
        LET calls == FinalCalls(code)
            t1 == Write(db.task, calls[1], ok1)
            t == IF Len(calls) > 1 THEN Write(t1, calls[2], ok2) ELSE t1
        IN  /\ trace' = trace \o calls
            /\ loc' = [loc EXCEPT !.result = code, !.db_error = (code = 0)]
            /\ pc' = "ended"
            /\ db' = [db EXCEPT !.task = t, !.temp_files = FALSE,
                                !.cache = IF code = 200 /\ ok3 THEN 200 ELSE @]
    /\ UNCHANGED <<now, args, ret, rf_model, model_file, bjd_map, bjd_file>>

\* GET /predict/{task_id}
GetPredictionStatus ==
    /\ pc \notin {"post", "answered"}
    /\ \E read_ok \in BOOLEAN :
        loc' = [loc EXCEPT !.report = get_prediction_status(get_task_status(db.task, read_ok))]
    /\ UNCHANGED <<now, pc, args, ret, rf_model, model_file, db, trace, bjd_map, bjd_file>>

NextTask ==
    \/ PostPredict
    \/ TaskStart
    \/ LedgerOcr
    \/ RegistryOcr
    \/ MatchDocuments
    \/ PredictAndComplete
    \/ GetPredictionStatus

SpecTask == InitTask /\ [][NextTask]_vars

\* the validation failures named by the contract
OffendingFields ==
    {FieldError("ledger_files", 0 - 1) : x \in {1} \cap
        {IF Len(args.ledger_files) = 0 \/ Len(args.ledger_files) > 5 THEN 1 ELSE 0}}
    \cup {FieldError("registry_files", 0 - 1) : x \in {1} \cap
        {IF Len(args.registry_files) = 0 \/ Len(args.registry_files) > 3 THEN 1 ELSE 0}}
    \cup {FieldError("ledger_files", i - 1) : i \in
        {j \in 1..Len(args.ledger_files) :
            \/ args.ledger_files[j].content_type \notin {"image/png", "image/jpeg", "image/jpg"}
            \/ args.ledger_files[j].size_mb > 10}}
    \cup {FieldError("registry_files", i - 1) : i \in
        {j \in 1..Len(args.registry_files) :
            \/ args.registry_files[j].content_type # "application/pdf"
            \/ args.registry_files[j].size_mb > 20}}

Answered == pc # "post"
TaskCreated == db.tasks > 0 \/ trace # <<>> \/ db.task # NoTask

Last(q) == q[Len(q)]
Statuses == {trace[i].status : i \in 1..Len(trace)}

\* C24: if the database is unavailable while a background prediction task
\* runs (the availability check at the start fails, or a later price lookup
\* raises DatabaseConnectionError), the task ends in status FAILED with an
\* error message and never reaches COMPLETED.
C24_DbFailureEndsFailed ==
    loc.db_error =>
        /\ pc = "ended"
        /\ Last(trace).status = "FAILED" /\ Last(trace).error
        /\ "COMPLETED" \notin Statuses

C24_Witness ==
    /\ loc.db_error /\ pc = "ended" /\ loc.result = 0 /\ Len(trace) > 3

\* ---------------------------------------------------------------------------
\* price_service.py: the three price lookups called on their own
\* ---------------------------------------------------------------------------
MaxTradeRow == 2       \* prices of the raw_trade row range over 1 .. MaxTradeRow

NoPrice == [raised |-> "", price |-> RZero, source |-> "Unknown"]
RaisedPrice == [raised |-> DbErr, price |-> RZero, source |-> "Unknown"]

\* estimate_market_price: the trade lookup, the collection and second lookup
\* ("if fetch_if_missing and parsed and is_db_available()", row2 the row
\* after the collection, every error of it but DatabaseConnectionError only
\* logged), then the estimate from the assessed price
estimate_market_price(pnu, available, row, row2, public, qerr) ==
    LET first == get_trade_price(pnu, available, row, qerr)
        retry == IF parse_pnu(pnu).ok /\ available
                 THEN get_trade_price(pnu, available, row2, qerr)
                 ELSE NoPrice
        pub == get_public_price(pnu, available, public, qerr)
    IN  IF first.raised # "" THEN RaisedPrice
        ELSE IF TradeFound(first.price) THEN first
        ELSE IF retry.raised # "" THEN RaisedPrice
        ELSE IF TradeFound(retry.price) THEN retry
        ELSE IF pub.raised # "" THEN RaisedPrice
        ELSE IF pub.price > 0
             THEN [raised |-> "", price |-> EstimateFromPublic(pub.price),
                   source |-> "Public_Price_Estimate"]
        ELSE NoPrice

TradeRows == {NoRow} \cup {Row(p) : p \in 1..MaxTradeRow}

InitPrice ==
    /\ now = Today
    /\ pc = "price_in"
    /\ args \in [pnu : Pnus, available : BOOLEAN, row : TradeRows, row2 : TradeRows,
                 public : {p * 10000 : p \in 0..MaxPublic}, qerr : QErrs]
    /\ ret = NoPrice
    /\ rf_model = "None"
    /\ model_file = "absent"
    /\ PipelineIdle
    /\ AddressIdle

GetTradePrice ==
    /\ pc = "price_in"
    /\ ret' = get_trade_price(args.pnu, args.available, args.row, args.qerr)
    /\ pc' = "get_trade_price"
    /\ UNCHANGED <<now, args, rf_model, model_file, db, loc, trace, bjd_map, bjd_file>>

GetPublicPrice ==
    /\ pc = "price_in"
    /\ LET p == get_public_price(args.pnu, args.available, args.public, args.qerr)
       IN  ret' = [raised |-> p.raised, price |-> RInt(p.price), source |-> "official_price_raw"]
    /\ pc' = "get_public_price"
    /\ UNCHANGED <<now, args, rf_model, model_file, db, loc, trace, bjd_map, bjd_file>>

EstimateMarketPrice ==
    /\ pc = "price_in"
    /\ ret' = estimate_market_price(args.pnu, args.available, args.row, args.row2,
                                    args.public, args.qerr)
    /\ pc' = "estimate_market_price"
    /\ UNCHANGED <<now, args, rf_model, model_file, db, loc, trace, bjd_map, bjd_file>>

NextPrice == GetTradePrice \/ GetPublicPrice \/ EstimateMarketPrice

SpecPrice == InitPrice /\ [][NextPrice]_vars

\* C25: with the database unavailable, get_trade_price, get_public_price and
\* estimate_market_price each raise DatabaseConnectionError for every
\* non-empty parcel key, the keys written without hyphens included.
C25_PriceLookupsRaise ==
    (pc # "price_in" /\ ~args.available /\ args.pnu # NoPnu) => ret.raised = DbErr

\* ---------------------------------------------------------------------------
\* SpecFallback: predict_service's scoring of a request priced above 0 when
\* no classifier is loaded: calculate_risk_features, _rule_based_prediction,
\* determine_risk_level and analyze_risk_factors on the same feature vector
\* ---------------------------------------------------------------------------
PricedInputs == {a \in CalcInputs : RGt(a.market, RZero)}

NoScoring == [features |-> <<>>, prob |-> RZero, level |-> "none", risk_factors |-> <<>>]

InitFallback ==
    /\ now = Today
    /\ pc = "fallback_in"
    /\ args \in {[calc |-> a, is_hug_safe |-> h] : a \in PricedInputs, h \in BOOLEAN}
    /\ ret = NoScoring
    /\ rf_model = "None"
    /\ model_file = "absent"
    /\ PipelineIdle
    /\ AddressIdle

FallbackScoring ==
    /\ pc = "fallback_in"
    /\ LET a == args.calc
           f == calculate_risk_features(a.deposit, a.market, a.public, a.building_info,
                                        a.ocr_features, now)
           prob == _rule_based_prediction(f)
       IN  ret' = [features |-> f, prob |-> prob, level |-> determine_risk_level(prob),
                   risk_factors |-> analyze_risk_factors(f, args.is_hug_safe)]
    /\ pc' = "fallback_out"
    /\ UNCHANGED <<now, args, rf_model, model_file, db, loc, trace, bjd_map, bjd_file>>

NextFallback == FallbackScoring

SpecFallback == InitFallback /\ [][NextFallback]_vars

\* C29: under the rule-based fallback, for every feature vector computed from
\* a positive market price, a risk level of CAUTION or RISKY comes with at
\* least one factor other than the NONE sentinel; the sentinel appears only
\* together with SAFE.
C29_SentinelOnlyWithSafe ==
    pc = "fallback_out" =>
        /\ ret.level \in {"CAUTION", "RISKY"}
            => \E i \in 1..Len(ret.risk_factors) : ret.risk_factors[i] # Sentinel
        /\ InList(Sentinel, ret.risk_factors) => ret.level = "SAFE"

\* schemas.py
RiskSeverity == {"LOW", "MEDIUM", "HIGH", "CRITICAL"}
RiskFactorType == {"OWNERSHIP_PERIOD", "HUG_INELIGIBLE", "HIGH_LTV", "SENIOR_DEBT", "ILLEGAL_BUILDING", "TRUST_PROPERTY", "OLD_BUILDING", "NONE"}

\* C30: every factor analyze_risk_factors emits has a type that is a member
\* of the RiskFactorType enumeration and a severity that is a member of
\* RiskSeverity.
C30_FactorsWithinEnums ==
    pc = "analyze_out" =>
        \A i \in 1..Len(ret.risk_factors) :
            /\ ret.risk_factors[i].type \in RiskFactorType
            /\ ret.risk_factors[i].severity \in RiskSeverity

Terminal == {"COMPLETED", "FAILED"}

\* C26: every task accepted with 202 moves from PENDING through PROCESSING to
\* exactly one of COMPLETED or FAILED: it reaches a terminal status that
\* GET /predict/{task_id} reports, and once COMPLETED or FAILED has been
\* recorded no later status is written for the task.
C26_TerminalStatusReported ==
    ret.code = 202 =>
        /\ trace[1].status = "PENDING"
        /\ \A i \in 2..Len(trace) : trace[i].status # "PENDING"
        /\ Len(trace) >= 2 => trace[2].status = "PROCESSING"
        /\ \A i \in 1..Len(trace) : trace[i].status \in Terminal => i = Len(trace)
        /\ pc = "ended" =>
            /\ Last(trace).status \in Terminal
            /\ get_prediction_status(get_task_status(db.task, TRUE)).status
                   = Last(trace).status

\* the analysis did not succeed: an extractor failed or raised, the documents
\* did not match, or the prediction answered an error response
AnalysisFailed ==
    \/ loc.ledger \in {"error", "raises"}
    \/ loc.registry \in {"empty", "raises"}
    \/ Last(trace) = StatusCall("FAILED", 60, 422, TRUE)
    \/ loc.result \in {422, 500}

\* C27: a task reaches COMPLETED only when the analysis produced a successful
\* result (response code 200): when OCR extraction of either document fails,
\* the documents do not match, no pricing data exists or the prediction hits
\* an internal error, the task ends FAILED, and no error response is stored
\* as the result under status COMPLETED.
C27_CompletedOnlyWithSuccess ==
    /\ \A i \in 1..Len(trace) : trace[i].status = "COMPLETED" => trace[i].result = 200
    /\ db.task.status = "COMPLETED" => db.task.result = 200
    /\ (pc = "ended" /\ AnalysisFailed) => Last(trace).status = "FAILED"

\* C28: the progress recorded by the successive status updates of a task
\* never decreases, always lies between 0 and 100, and is 100 exactly when
\* the status is COMPLETED; a failure keeps the progress reached so far.
C28_ProgressMonotone ==
    /\ \A i \in 1..Len(trace) :
        /\ trace[i].progress \in 0..100
        /\ (trace[i].progress = 100) <=> (trace[i].status = "COMPLETED")
    /\ \A i \in 1..Len(trace), j \in 1..Len(trace) :
        i < j => trace[i].progress <= trace[j].progress

====
